---- MODULE Spec2Model ----
(***************************************************************************)
(* Stats aggregation engine of mad-wrapped: the population (peer) cache,   *)
(* the global-stats cache, the orchestrator computeStatsForClient, the     *)
(* percentile computation, and the per-member and per-coach computations   *)
(* computeClientStats and computeCoachStats, modelled from the TypeScript  *)
(* sources.                                                                *)
(*                                                                         *)
(* Time is counted in ticks, TicksPerHour ticks to the hour.  Dates are    *)
(* day numbers of the reporting year (1 = 2025-01-01).  SQL numerics and   *)
(* the JavaScript numbers parsed from them are exact rationals             *)
(* [num, den]; where the rounding of IEEE-754 doubles decides a result,    *)
(* in Math.round((belowCount / length) * 100) and in the badge comparison  *)
(* classes / total > 0.3, the doubles are computed bit by bit on 53-bit    *)
(* significands.                                                           *)
(***************************************************************************)
EXTENDS Integers, Sequences, FiniteSets, TLC

VARIABLES
    now,                  \* Date.now(), in ticks
    visits,               \* the visits table (Visit Store)
    clients,              \* the clients table (member directory)
    mvPeer,               \* mv_peer_stats: whether the relation exists, and its rows
    mvGlobal,             \* mv_global_stats: whether the relation exists, and its rows
    memberStatsCache,     \* peerStats.ts module state
    peerAveragesCache,
    peerStatsCacheTime,
    globalStatsCache,     \* globalStats module state
    globalStatsCacheTime,
    req,                  \* the in-flight computeStatsForClient calls
    pct,                  \* a call of calculatePercentile on drawn inputs
    cs,                   \* the calls of computeClientStats on a drawn store
    co                    \* a call of computeCoachStats on a drawn store

vars == <<now, visits, clients, mvPeer, mvGlobal, memberStatsCache,
          peerAveragesCache, peerStatsCacheTime, globalStatsCache,
          globalStatsCacheTime, req, pct, cs, co>>

engineVars == <<now, visits, clients, mvPeer, mvGlobal, memberStatsCache,
                peerAveragesCache, peerStatsCacheTime, globalStatsCache,
                globalStatsCacheTime, req>>

\* SQL NULL and JavaScript null for strings; None and Some(x) for the
\* other nullable values.
Null == "null"
None == <<>>
Some(x) == <<x>>

(***************************************************************************)
(* Bounds of the model.                                                    *)
(***************************************************************************)
TicksPerHour == 2
MaxElapsed == 2
MaxPop == 3
MaxVal == 2
MaxTwoPop == 40
MaxEarly == 4
MaxMidday == 7
MaxNight == 4

(***************************************************************************)
(* Exact rationals.                                                        *)
(***************************************************************************)
RECURSIVE GCD(_, _)
GCD(a, b) == IF b = 0 THEN a ELSE GCD(b, a % b)

Rat(n, d) == LET g == GCD(n, d) IN [num |-> n \div g, den |-> d \div g]

RatInt(n) == [num |-> n, den |-> 1]

RatAdd(a, b) == Rat(a.num * b.den + b.num * a.den, a.den * b.den)

RatDivInt(a, k) == Rat(a.num, a.den * k)

RatLeq(a, b) == a.num * b.den <= b.num * a.den

(***************************************************************************)
(* IEEE-754 double arithmetic on the operands calculatePercentile uses.    *)
(* A positive double is [hi, mid, lo, exp]: its 53-bit significand         *)
(* M = hi * 2^36 + mid * 2^18 + lo with 2^52 <= M < 2^53, kept in three    *)
(* limbs so that every intermediate fits a machine integer of the model    *)
(* checker, and its value M * 2^(exp - 52).                                *)
(***************************************************************************)
Pow2(k) == IF k <= 0 THEN 1 ELSE 2 ^ k

Limb == Pow2(18)
TopLimb == Pow2(17)

\* Round to nearest, ties to even: `up` says the discarded part is more than
\* half a unit in the last place, `tie` that it is exactly half.
RoundNearestEven(hi, mid, lo, exp, up, tie) ==
    IF ~(up \/ (tie /\ lo % 2 = 1))
    THEN [hi |-> hi, mid |-> mid, lo |-> lo, exp |-> exp]
    ELSE IF lo + 1 < Limb
    THEN [hi |-> hi, mid |-> mid, lo |-> lo + 1, exp |-> exp]
    ELSE IF mid + 1 < Limb
    THEN [hi |-> hi, mid |-> mid + 1, lo |-> 0, exp |-> exp]
    ELSE IF hi + 1 < TopLimb
    THEN [hi |-> hi + 1, mid |-> 0, lo |-> 0, exp |-> exp]
    ELSE [hi |-> TopLimb \div 2, mid |-> 0, lo |-> 0, exp |-> exp + 1]

RECURSIVE LeadShift(_, _, _)
LeadShift(b, n, k) == IF b * Pow2(k) >= n THEN k ELSE LeadShift(b, n, k + 1)

\* b / n for integers 0 < b <= n < 2^13, correctly rounded: long division,
\* 16, 18 and 18 quotient bits at a time.
DoubleDiv(b, n) ==
    LET k == LeadShift(b, n, 0)
        r0 == b * Pow2(k)
        hi == (r0 * Pow2(16)) \div n
        r1 == (r0 * Pow2(16)) % n
        mid == (r1 * Limb) \div n
        r2 == (r1 * Limb) % n
        lo == (r2 * Limb) \div n
        r3 == (r2 * Limb) % n
    IN RoundNearestEven(hi, mid, lo, 0 - k, 2 * r3 > n, 2 * r3 = n)

RECURSIVE BitLength(_)
BitLength(m) == IF m = 0 THEN 0 ELSE 1 + BitLength(m \div 2)

\* x * c for a double x and an integer 1 < c < 2^7, correctly rounded: the
\* exact product limb by limb, then its top 53 bits.
DoubleTimes(x, c) ==
    LET lo == (x.lo * c) % Limb
        c1 == (x.lo * c) \div Limb
        mid == (x.mid * c + c1) % Limb
        c2 == (x.mid * c + c1) \div Limb
        hi == x.hi * c + c2
        extra == BitLength(hi) - 17
        cut == Pow2(extra)
        lost == lo % cut
    IN RoundNearestEven(hi \div cut,
                        mid \div cut + (hi % cut) * (Limb \div cut),
                        lo \div cut + (mid % cut) * (Limb \div cut),
                        x.exp + extra,
                        2 * lost > cut, 2 * lost = cut /\ extra > 0)

\* Math.round of a positive double below 2^15: the nearest integer, halves up.
MathRound(x) ==
    (x.hi \div Pow2(16 - x.exp)) + ((x.hi \div Pow2(15 - x.exp)) % 2)

(***************************************************************************)
(* calculatePercentile and the inputs it is checked on.                    *)
(***************************************************************************)
BelowCountReversed(value, sortedValues) ==
    Cardinality({i \in 1..Len(sortedValues) : RatLeq(value, sortedValues[i])})

BelowCountStrict(value, sortedValues) ==
    Cardinality({i \in 1..Len(sortedValues) :
                    RatLeq(sortedValues[i], value) /\ sortedValues[i] # value})

\* sortedValues.filter((v) => v <= value).length
BelowCount(value, sortedValues) ==
    Cardinality({i \in 1..Len(sortedValues) : RatLeq(sortedValues[i], value)})

\* Math.round((belowCount / sortedValues.length) * 100), in doubles.
RoundedShare(belowCount, length) ==
    IF belowCount = 0 THEN 0
    ELSE MathRound(DoubleTimes(DoubleDiv(belowCount, length), 100))

calculatePercentile(value, sortedValues) ==
    IF Len(sortedValues) = 0 THEN 0
    ELSE RoundedShare(BelowCount(value, sortedValues), Len(sortedValues))

\* values.sort((a, b) => a - b)
RECURSIVE Insert(_, _)
Insert(x, s) ==
    IF s = <<>> THEN <<x>>
    ELSE IF RatLeq(x, s[1]) THEN <<x>> \o s
    ELSE <<s[1]>> \o Insert(x, Tail(s))

RECURSIVE Sort(_)
Sort(s) == IF s = <<>> THEN <<>> ELSE Insert(s[1], Sort(Tail(s)))

SeqsUpTo(S, n) == UNION {[1..k -> S] : k \in 0..n}

\* n members of which the first k have metric 0 and the others metric 1.
TwoValued(n, k) == [i \in 1..n |-> IF i <= k THEN RatInt(0) ELSE RatInt(1)]

\* Five members with total classes 10, 20, 30, 40, 50.
FiveMembers == <<RatInt(10), RatInt(20), RatInt(30), RatInt(40), RatInt(50)>>

SmallValues == {RatInt(k) : k \in 0..MaxVal}

Populations ==
    {Sort(s) : s \in SeqsUpTo(SmallValues, MaxPop)}
        \cup {TwoValued(n, k) : n \in 1..MaxTwoPop, k \in 0..MaxTwoPop}
        \cup {FiveMembers}

PctIdle == [sortedValues |-> <<>>, value |-> RatInt(0), other |-> RatInt(0),
            called |-> FALSE, result |-> 0, otherResult |-> 0]

(***************************************************************************)
(* The visit store.  A visit is a row of the visits table; class_date is   *)
(* a day number (1 = 2025-01-01, a Wednesday), class_time an hour of the   *)
(* day or None, creation_date_time an hour count from the start of day 0   *)
(* or None.                                                                *)
(***************************************************************************)
YEAR_START == 1
YEAR_END == 365

Visit(c, d, t, loc, coach, canc, miss, created) ==
    [client_dupont_location_id |-> c, class_date |-> d, class_time |-> t,
     location_name |-> loc,
     trainer_first_name |-> IF coach = None THEN Null ELSE coach[1],
     trainer_last_name |-> IF coach = None THEN Null ELSE coach[2],
     cancelled |-> canc, missed |-> miss, creation_date_time |-> created]

Ann == <<"Ann", "Lee">>
Bob == <<"Bob", "Ray">>

\* The store the engine starts on: m1 has early classes, a class booked one
\* hour ahead and a cancelled one; m2 is in the directory with no visit.
InitialVisits ==
    { Visit("m1", 6, Some(6), "Dupont", Ann, FALSE, FALSE, None),
      Visit("m1", 7, Some(18), "Dupont", Bob, FALSE, FALSE, Some(7 * 24 + 17)),
      Visit("m1", 8, Some(6), "Dupont", Ann, TRUE, FALSE, None),
      Visit("m1", 13, Some(6), "Dupont", Ann, FALSE, FALSE, None) }

\* What the ingestion collaborator may add while the engine runs: m2's first
\* class (shared with m1) and a class outside the reporting year.
Batches ==
    { { Visit("m2", 6, Some(6), "Dupont", Ann, FALSE, FALSE, None),
        Visit("m2", 400, Some(6), "Dupont", Ann, FALSE, FALSE, None) } }

Directory == {"m1", "m2"}
ClientIds == <<"m1", "m2", "m9">>

Attended(vs) == {v \in vs : ~v.cancelled /\ ~v.missed}

\* WHERE class_date >= $1 AND class_date <= $2
YearVisits(vs) == {v \in vs : v.class_date >= YEAR_START /\ v.class_date <= YEAR_END}

\* DATE_TRUNC('week', class_date): weeks start on Monday; day 6 is a Monday.
WeekOf(d) == (d + 1) \div 7

IsEarly(v) == v.class_time # None /\ v.class_time[1] < 8

\* (class_date + class_time - creation_date_time) < interval '2 hours'
IsLateBooking(v) ==
    /\ v.creation_date_time # None
    /\ v.class_time # None
    /\ v.class_date * 24 + v.class_time[1] - v.creation_date_time[1] < 2

PerfectWeeksOf(group) ==
    Cardinality({w \in {WeekOf(v.class_date) : v \in group} :
        Cardinality({v \in Attended(group) : WeekOf(v.class_date) = w}) >= 4})

\* One row of member_stats LEFT JOIN member_perfect_weeks for the visits
\* `group` of client c (the GROUP BY client_dupont_location_id).
MemberStatsRow(c, group) ==
    LET total == Cardinality(Attended(group))
    IN [client_dupont_location_id |-> c,
        total_classes |-> total,
        classes_per_month |-> IF total = 0 THEN RatInt(0) ELSE Rat(total, 12),
        early_bird_score |->
            IF total = 0 THEN RatInt(0)
            ELSE Rat(Cardinality({v \in Attended(group) : IsEarly(v)}) * 100, total),
        late_bookings |-> Cardinality({v \in Attended(group) : IsLateBooking(v)}),
        cancellations |-> Cardinality({v \in group : v.cancelled \/ v.missed}),
        perfect_weeks |-> PerfectWeeksOf(group)]

VisitsOf(vs, c) == {v \in vs : v.client_dupont_location_id = c}

\* The rows of the all_member_stats_live query: one per client that has a
\* visit in the year.  SQL fixes no row order; the rows come in client order.
AllMemberStatsRows(vs) ==
    LET hasRow(c) == VisitsOf(YearVisits(vs), c) # {}
        row(c) == MemberStatsRow(c, VisitsOf(YearVisits(vs), c))
    IN [i \in 1..Len(SelectSeq(ClientIds, hasRow)) |->
            row(SelectSeq(ClientIds, hasRow)[i])]

SingleClientStatsRowsAllYears(vs, c) ==
    IF VisitsOf(vs, c) = {} THEN <<>>
    ELSE <<MemberStatsRow(c, VisitsOf(vs, c))>>

\* The rows of the single_client_stats_live query: member_stats over the
\* visits WHERE client_dupont_location_id = $1 AND class_date in the year
\* (no row when there is none), LEFT JOIN member_perfect_weeks ON true, the
\* one-row count of that client's weeks with classes_in_week >= 4.
SingleClientStatsRows(vs, c) ==
    LET mine == {v \in vs : /\ v.client_dupont_location_id = c
                            /\ v.class_date >= YEAR_START
                            /\ v.class_date <= YEAR_END}
        went == {v \in mine : ~v.cancelled /\ ~v.missed}
        total_classes == Cardinality(went)
        classes_in_week(w) ==
            Cardinality({v \in went : WeekOf(v.class_date) = w})
        perfect_weeks_count ==
            Cardinality({w \in {WeekOf(v.class_date) : v \in mine} :
                            classes_in_week(w) >= 4})
    IN IF mine = {} THEN <<>>
       ELSE << [client_dupont_location_id |-> c,
                total_classes |-> total_classes,
                classes_per_month |->
                    IF total_classes = 0 THEN RatInt(0) ELSE Rat(total_classes, 12),
                early_bird_score |->
                    IF total_classes = 0 THEN RatInt(0)
                    ELSE Rat(Cardinality({v \in went : IsEarly(v)}) * 100,
                             total_classes),
                late_bookings |-> Cardinality({v \in went : IsLateBooking(v)}),
                cancellations |->
                    Cardinality({v \in mine : v.cancelled \/ v.missed}),
                perfect_weeks |-> perfect_weeks_count] >>

\* result.rows.map(row => ({clientId: ..., totalClasses: parseInt(...), ...}))
ToMemberStats(row) ==
    [clientId |-> row.client_dupont_location_id,
     totalClasses |-> row.total_classes,
     classesPerMonth |-> row.classes_per_month,
     earlyBirdScore |-> row.early_bird_score,
     lateBookings |-> row.late_bookings,
     cancellations |-> row.cancellations,
     perfectWeeks |-> row.perfect_weeks]

MapMemberStats(rows) == [i \in 1..Len(rows) |-> ToMemberStats(rows[i])]

RECURSIVE SumRat(_)
SumRat(s) == IF s = <<>> THEN RatInt(0) ELSE RatAdd(s[1], SumRat(Tail(s)))

Column(stats, f(_)) == [i \in 1..Len(stats) |-> f(stats[i])]

\* const count = stats.length || 1; the four reduce(...) / count
ComputeAverages(stats) ==
    LET count == IF Len(stats) = 0 THEN 1 ELSE Len(stats)
        cpm(s) == s.classesPerMonth
        ebs(s) == s.earlyBirdScore
        late(s) == RatInt(s.lateBookings)
        canc(s) == RatInt(s.cancellations)
    IN [avgClassesPerMonth |-> RatDivInt(SumRat(Column(stats, cpm)), count),
        avgEarlyBirdScore |-> RatDivInt(SumRat(Column(stats, ebs)), count),
        avgLateBookings |-> RatDivInt(SumRat(Column(stats, late)), count),
        avgCancellations |-> RatDivInt(SumRat(Column(stats, canc)), count)]

\* The zero snapshot calculateClientStatsLive returns for no row.
ZeroStats(c) ==
    [clientId |-> c, totalClasses |-> 0, classesPerMonth |-> RatInt(0),
     earlyBirdScore |-> RatInt(0), lateBookings |-> 0, cancellations |-> 0,
     perfectWeeks |-> 0]

(***************************************************************************)
(* The global_stats_live query and the GlobalStatsResult built from a row. *)
(***************************************************************************)
TwoDigits == <<"01", "02", "03", "04", "05", "06", "07", "08", "09", "10", "11", "12">>

\* TO_CHAR(class_time, 'HH12:MI AM') of a full hour.
FormatTime(h) ==
    TwoDigits[IF h % 12 = 0 THEN 12 ELSE h % 12] \o ":00 "
        \o (IF h < 12 THEN "AM" ELSE "PM")

\* EXTRACT(DOW FROM class_date): 0 is Sunday; day 5 is a Sunday.
DayOfWeek(d) == (d + 2) % 7

\* TO_CHAR(class_date, 'Day'): the day name blank-padded to nine characters.
DayNames == <<"Sunday   ", "Monday   ", "Tuesday  ", "Wednesday", "Thursday ",
              "Friday   ", "Saturday ">>

\* String.prototype.trim on a padded day name.
Trimmed == [s \in {DayNames[i] : i \in 1..7} |->
    CASE s = "Sunday   " -> "Sunday" [] s = "Monday   " -> "Monday"
      [] s = "Tuesday  " -> "Tuesday" [] s = "Wednesday" -> "Wednesday"
      [] s = "Thursday " -> "Thursday" [] s = "Friday   " -> "Friday"
      [] s = "Saturday " -> "Saturday"]

\* GROUP BY key ORDER BY count DESC LIMIT 1: any key of the highest count
\* (SQL leaves the choice among ties open); `none` when there is no group.
TopKeys(rows, key(_), none) ==
    LET keys == {key(v) : v \in rows}
        n(k) == Cardinality({v \in rows : key(v) = k})
    IN IF keys = {} THEN {none}
       ELSE {k \in keys : \A j \in keys : n(j) <= n(k)}

\* ROUND(x) of a non-negative numeric: halves away from zero.
RoundRat(r) == (2 * r.num + r.den) \div (2 * r.den)

\* The early_bird_score of one member_early_bird group.
MemberEarlyBird(att, c) ==
    Rat(Cardinality({v \in VisitsOf(att, c) : IsEarly(v)}) * 100,
        Cardinality(VisitsOf(att, c)))

RECURSIVE SumEarlyBird(_, _)
SumEarlyBird(att, members) ==
    IF members = {} THEN RatInt(0)
    ELSE LET c == CHOOSE x \in members : TRUE
         IN RatAdd(MemberEarlyBird(att, c), SumEarlyBird(att, members \ {c}))

\* COALESCE(ROUND(AVG(early_bird_score)), 0) over member_early_bird.
AvgEarlyBird(att) ==
    LET members == {v.client_dupont_location_id : v \in att}
    IN IF members = {} THEN 0
       ELSE RoundRat(RatDivInt(SumEarlyBird(att, members), Cardinality(members)))

\* The rows the global_stats_live query can return for the store vs.
GlobalStatsRows(vs) ==
    LET yv == YearVisits(vs)
        att == Attended(yv)
        slot(v) == v.class_time
        day(v) == DayNames[DayOfWeek(v.class_date) + 1]
        coach(v) == v.trainer_first_name \o " " \o v.trainer_last_name
    IN { [total_members |-> Cardinality({v.client_dupont_location_id : v \in yv}),
          total_classes |-> Cardinality(att),
          most_popular_time_slot |-> IF s = None THEN Null ELSE FormatTime(s[1]),
          most_popular_day |-> d,
          most_popular_coach |-> c,
          avg_early_bird_score |-> AvgEarlyBird(att)] :
         s \in TopKeys({v \in att : v.class_time # None}, slot, None),
         d \in TopKeys(att, day, Null),
         c \in TopKeys({v \in att : v.trainer_first_name # Null}, coach, Null) }

\* The GlobalStatsResult built from a row (the same code on both paths).
ToGlobalStats(row) ==
    [totalMembers |-> row.total_members,
     totalClasses |-> row.total_classes,
     averageClassesPerMember |->
        IF row.total_members > 0 THEN Rat(row.total_classes, row.total_members)
        ELSE RatInt(0),
     mostPopularTimeSlot |->
        IF row.most_popular_time_slot = Null THEN "07:30 AM"
        ELSE row.most_popular_time_slot,
     mostPopularDay |->
        IF row.most_popular_day = Null THEN "Monday" ELSE Trimmed[row.most_popular_day],
     mostPopularCoach |->
        IF row.most_popular_coach = Null THEN "Unknown" ELSE row.most_popular_coach,
     averageEarlyBirdScore |-> row.avg_early_bird_score]

(***************************************************************************)
(* The top_classmates_live query.                                          *)
(***************************************************************************)
\* The shared_classes count of classmate m for member c.
SharedClasses(vs, c, m) ==
    LET member_classes ==
            {<<v.class_date, v.class_time, v.location_name>> :
                v \in Attended(YearVisits(VisitsOf(vs, c)))}
    IN Cardinality({v \in Attended(VisitsOf(vs, m)) :
            /\ v.class_time # None
            /\ v.location_name # Null
            /\ <<v.class_date, v.class_time, v.location_name>> \in member_classes})

\* ORDER BY shared_classes DESC LIMIT 3: every order the ties allow.
TopClassmatesRows(vs, dir, c) ==
    LET mates == {m \in dir \ {c} : SharedClasses(vs, c, m) > 0}
        k == IF Cardinality(mates) < 3 THEN Cardinality(mates) ELSE 3
        n(m) == SharedClasses(vs, c, m)
    IN {s \in [1..k -> mates] :
            /\ \A i, j \in 1..k : i < j => s[i] # s[j] /\ n(s[i]) >= n(s[j])
            /\ \A m \in mates : (\A i \in 1..k : s[i] # m) =>
                                    \A i \in 1..k : n(m) <= n(s[i])}

\* classmatesResult.rows.map(...): the classmate and parseInt(shared_classes).
ToClassmates(vs, c, rows) ==
    [i \in 1..Len(rows) |->
        [clientId |-> rows[i], sharedClasses |-> SharedClasses(vs, c, rows[i])]]

(***************************************************************************)
(* computeClientStats: the client_combined_stats query, one CTE after the  *)
(* other, and the ClientStatsResult built from its row.  The name and the  *)
(* email of the clients row are left out.                                  *)
(***************************************************************************)
\* client_visits: the member's visits of the reporting year.
client_visits(vs, c) ==
    {v \in vs : /\ v.client_dupont_location_id = c
                /\ v.class_date >= YEAR_START
                /\ v.class_date <= YEAR_END}

\* all_time_visits.
all_time_visits(vs, c) == {v \in vs : v.client_dupont_location_id = c}

\* WHERE NOT cancelled AND NOT missed.
NotCancelledNotMissed(rows) == {v \in rows : ~v.cancelled /\ ~v.missed}

Maximum(S) == CHOOSE x \in S : \A y \in S : y <= x

Minimum(S) == CHOOSE x \in S : \A y \in S : x <= y

\* first_seen: MIN(class_date) of the attended visits of all time, NULL
\* (None) when there is none.
first_seen(vs, c) ==
    LET dates == {v.class_date : v \in NotCancelledNotMissed(all_time_visits(vs, c))}
    IN IF dates = {} THEN None ELSE Some(Minimum(dates))

\* EXTRACT(YEAR FROM class_date) of a day number.
YearOf(d) == 2025 + ((d - 1) \div 365)

RECURSIVE Ascending(_)
\* The members of a set of integers in ascending order.
Ascending(S) ==
    IF S = {} THEN <<>>
    ELSE <<Minimum(S)>> \o Ascending(S \ {Minimum(S)})

\* classes_by_year, json_agg(... ORDER BY year), and its parse.
classes_by_year(vs, c) ==
    LET att == NotCancelledNotMissed(all_time_visits(vs, c))
        years == Ascending({YearOf(v.class_date) : v \in att})
    IN [i \in 1..Len(years) |->
            [year |-> years[i],
             count |-> Cardinality({v \in att : YearOf(v.class_date) = years[i]})]]

\* GROUP BY key ... COUNT(*): the count of each key that has a row.
CountBy(keys, rows, keyOf) ==
    [k \in keys |-> Cardinality({v \in rows : keyOf[v] = k})]

\* ORDER BY count DESC [LIMIT limit] over grouped rows: every order of the
\* keys by falling count, cut to the limit.  SQL fixes no order among keys of
\* equal count, so each of them is an answer the store may give.
OrderedByCountDesc(cnt, limit) ==
    LET keys == DOMAIN cnt
        n == IF Cardinality(keys) < limit THEN Cardinality(keys) ELSE limit
    IN {s \in [1..n -> keys] :
            /\ \A i, j \in 1..n : i < j => (s[i] # s[j] /\ cnt[s[i]] >= cnt[s[j]])
            /\ \A k \in keys : (\A i \in 1..n : s[i] # k)
                    => \A i \in 1..n : cnt[k] <= cnt[s[i]]}

\* CONCAT(trainer_first_name, ' ', trainer_last_name).
CoachName(first, last) == first \o " " \o last

\* top_coach: the coaches of the attended visits with a first name, by
\* class count, LIMIT 1.
top_coach(vs, c) ==
    LET rows == {v \in NotCancelledNotMissed(client_visits(vs, c)) :
                    v.trainer_first_name # Null}
        nameOf == [v \in rows |-> <<v.trainer_first_name, v.trainer_last_name>>]
        cnt == CountBy({nameOf[v] : v \in rows}, rows, nameOf)
    IN {IF Len(s) = 0 THEN None ELSE Some(CoachName(s[1][1], s[1][2])) :
            s \in OrderedByCountDesc(cnt, 1)}

\* time_slots: GROUP BY class_time ORDER BY slot_count DESC LIMIT 3, then
\* json_agg(time_slot ORDER BY slot_count DESC).
time_slots(vs, c) ==
    LET rows == {v \in NotCancelledNotMissed(client_visits(vs, c)) :
                    v.class_time # None}
        timeOf == [v \in rows |-> v.class_time[1]]
        cnt == CountBy({timeOf[v] : v \in rows}, rows, timeOf)
    IN {[i \in 1..Len(s) |-> FormatTime(s[i])] : s \in OrderedByCountDesc(cnt, 3)}

\* most_frequent_day: GROUP BY the day name ORDER BY day_count DESC LIMIT 1.
most_frequent_day(vs, c) ==
    LET rows == NotCancelledNotMissed(client_visits(vs, c))
        dayOf == [v \in rows |-> DayOfWeek(v.class_date)]
        cnt == CountBy({dayOf[v] : v \in rows}, rows, dayOf)
    IN {IF Len(s) = 0 THEN None ELSE Some(DayNames[s[1] + 1]) :
            s \in OrderedByCountDesc(cnt, 1)}

\* visit_dates: SELECT DISTINCT class_date::date of the attended visits.
visit_dates(vs, c) ==
    {v.class_date : v \in NotCancelledNotMissed(client_visits(vs, c))}

\* ROW_NUMBER() OVER (ORDER BY visit_date) of a date among distinct dates.
RowNumber(d, dates) == Cardinality({e \in dates : e <= d})

StreakGroupByDate(d, dates) == d

\* streaks: visit_date - ROW_NUMBER() OVER (ORDER BY visit_date).
StreakGroup(d, dates) == d - RowNumber(d, dates)

\* streak_lengths: COUNT(*) GROUP BY streak_group.
streak_lengths(dates) ==
    {Cardinality({d \in dates : StreakGroup(d, dates) = g}) :
        g \in {StreakGroup(d, dates) : d \in dates}}

LongestStreakCountingDates(vs, c) == Cardinality(visit_dates(vs, c))

LongestStreakOrZero(vs, c) ==
    LET lengths == streak_lengths(visit_dates(vs, c))
    IN IF lengths = {} THEN 0 ELSE Maximum(lengths)

\* longest_streak: COALESCE(MAX(streak_length), 1).
longest_streak(vs, c) ==
    LET lengths == streak_lengths(visit_dates(vs, c))
    IN IF lengths = {} THEN 1 ELSE Maximum(lengths)

\* late_bookings.
late_bookings(vs, c) ==
    Cardinality({v \in NotCancelledNotMissed(client_visits(vs, c)) :
                    IsLateBooking(v)})

early_bird_over_all_attended(vs, c) ==
    LET att == NotCancelledNotMissed(client_visits(vs, c))
    IN IF Cardinality(att) = 0 THEN 0
       ELSE RoundRat(Rat(Cardinality({v \in att : IsEarly(v)}) * 100,
                         Cardinality(att)))

\* early_bird: over the visits WHERE class_time IS NOT NULL, 0 when none was
\* attended, else ROUND(early * 100.0 / attended).
early_bird(vs, c) ==
    LET timed == {v \in client_visits(vs, c) : v.class_time # None}
        att == NotCancelledNotMissed(timed)
    IN IF Cardinality(att) = 0 THEN 0
       ELSE RoundRat(Rat(Cardinality({v \in att : v.class_time[1] < 8}) * 100,
                         Cardinality(att)))

MONTHS == <<"Jan", "Feb", "Mar", "Apr", "May", "Jun",
            "Jul", "Aug", "Sep", "Oct", "Nov", "Dec">>

\* The day numbers the months of 2025 start on.
MonthStarts == <<1, 32, 60, 91, 121, 152, 182, 213, 244, 274, 305, 335>>

\* EXTRACT(MONTH FROM class_date) of a day of the reporting year.
MonthOf(d) == Cardinality({m \in 1..12 : MonthStarts[m] <= d})

\* monthly_classes: one row per month with an attended class; TO_CHAR(
\* class_date, 'Mon') is the month's entry of MONTHS.
monthly_classes(vs, c) ==
    LET att == NotCancelledNotMissed(client_visits(vs, c))
    IN {[month |-> MONTHS[m], month_num |-> m,
         count |-> Cardinality({v \in att : MonthOf(v.class_date) = m})] :
            m \in {MonthOf(v.class_date) : v \in att}}

location_stats_of_all_visits(vs, c) ==
    LET rows == {v \in client_visits(vs, c) : v.location_name # Null}
        locOf == [v \in rows |-> v.location_name]
        cnt == CountBy({locOf[v] : v \in rows}, rows, locOf)
    IN {[i \in 1..Len(s) |->
            [name |-> s[i], count |-> cnt[s[i]],
             percentage |-> RoundRat(Rat(cnt[s[i]] * 100, Cardinality(rows)))]] :
                s \in OrderedByCountDesc(cnt, Cardinality(DOMAIN cnt))}

\* location_stats: GROUP BY location_name ORDER BY visit_count DESC, with
\* ROUND(COUNT(*) * 100.0 / NULLIF(SUM(COUNT(*)) OVER (), 0)), then
\* json_agg(... ORDER BY visit_count DESC).
location_stats(vs, c) ==
    LET rows == {v \in NotCancelledNotMissed(client_visits(vs, c)) :
                    v.location_name # Null}
        locOf == [v \in rows |-> v.location_name]
        cnt == CountBy({locOf[v] : v \in rows}, rows, locOf)
    IN {[i \in 1..Len(s) |->
            [name |-> s[i], count |-> cnt[s[i]],
             percentage |-> RoundRat(Rat(cnt[s[i]] * 100, Cardinality(rows)))]] :
                s \in OrderedByCountDesc(cnt, Cardinality(DOMAIN cnt))}

\* weekly_classes and perfect_weeks.
perfect_weeks(vs, c) ==
    LET rows == client_visits(vs, c)
        classes_in_week(w) ==
            Cardinality({v \in NotCancelledNotMissed(rows) : WeekOf(v.class_date) = w})
    IN Cardinality({w \in {WeekOf(v.class_date) : v \in rows} :
                        classes_in_week(w) >= 4})

\* The class_types table: the class type of a date, for the dates it lists.
class_types ==
    (6 :> "DURABILITY") @@ (7 :> "ANAEROBIC") @@ (8 :> "MOMENTUM")
        @@ (9 :> "DELOAD") @@ (20 :> "DURABILITY")

\* class_type_counts: client_visits LEFT JOIN class_types ON the date.
class_type_counts(vs, c) ==
    LET att == NotCancelledNotMissed(client_visits(vs, c))
        n(type) == Cardinality({v \in att :
                        /\ v.class_date \in DOMAIN class_types
                        /\ class_types[v.class_date] = type})
    IN [durability_classes |-> n("DURABILITY"),
        anaerobic_classes |-> n("ANAEROBIC"),
        momentum_classes |-> n("MOMENTUM"),
        deload_classes |-> n("DELOAD")]

Digits == <<"0", "1", "2", "3", "4", "5", "6", "7", "8", "9">>

RECURSIVE NumberToString(_)
\* Number.prototype.toString of a count.
NumberToString(n) ==
    IF n < 10 THEN Digits[n + 1]
    ELSE NumberToString(n \div 10) \o Digits[(n % 10) + 1]

\* MONTHS.map: found?.count?.toString() || "0".
ClassesPerMonth(monthly) ==
    [m \in 1..12 |->
        [month |-> MONTHS[m],
         count |-> IF \E row \in monthly : row.month = MONTHS[m]
                   THEN NumberToString(
                            (CHOOSE row \in monthly : row.month = MONTHS[m]).count)
                   ELSE "0"]]

FavoriteLocationLast(locationData) ==
    IF Len(locationData) > 0
    THEN [name |-> locationData[Len(locationData)].name,
          percentage |-> locationData[Len(locationData)].percentage]
    ELSE [name |-> "Unknown", percentage |-> 0]

\* locationData[0] ? {name, percentage} : {name: "Unknown", percentage: 0}.
FavoriteLocation(locationData) ==
    IF Len(locationData) > 0
    THEN [name |-> locationData[1].name,
          percentage |-> locationData[1].percentage]
    ELSE [name |-> "Unknown", percentage |-> 0]

\* The answers the store may give to the ordered, tie-breaking parts of the
\* combined query: one ordering for each.
RowOrders(vs, c) ==
    [top_coach : top_coach(vs, c), time_slots : time_slots(vs, c),
     most_frequent_day : most_frequent_day(vs, c),
     location_stats : location_stats(vs, c)]

\* The ClientStatsResult built from the combined row; firstSeen None is
\* clientInfo.created_at.
ClientStatsResult(vs, c, row) ==
    [firstSeen |-> first_seen(vs, c),
     totalClasses |-> Cardinality(NotCancelledNotMissed(client_visits(vs, c))),
     allTimeClasses |-> Cardinality(NotCancelledNotMissed(all_time_visits(vs, c))),
     classesByYear |-> classes_by_year(vs, c),
     totalCancellations |->
        Cardinality({v \in client_visits(vs, c) : v.cancelled \/ v.missed}),
     totalLateBookings |-> late_bookings(vs, c),
     topCoach |-> IF row.top_coach = None THEN "Unknown" ELSE row.top_coach[1],
     favoriteTimeOfDay |->
        IF Len(row.time_slots) = 0 THEN "06:00 AM" ELSE row.time_slots[1],
     topThreeTimeSlots |-> row.time_slots,
     mostFrequentDay |->
        IF row.most_frequent_day = None THEN "Monday"
        ELSE Trimmed[row.most_frequent_day[1]],
     longestStreak |-> longest_streak(vs, c),
     earlyBirdScore |-> early_bird(vs, c),
     classesPerMonth |-> ClassesPerMonth(monthly_classes(vs, c)),
     favoriteLocation |-> FavoriteLocation(row.location_stats),
     locationBreakdown |->
        [i \in 1..Len(row.location_stats) |->
            [name |-> row.location_stats[i].name,
             count |-> row.location_stats[i].count,
             percentage |-> row.location_stats[i].percentage]],
     perfectMadWeeks |-> perfect_weeks(vs, c),
     durabilityClasses |-> class_type_counts(vs, c).durability_classes,
     anaerobicClasses |-> class_type_counts(vs, c).anaerobic_classes,
     momentumClasses |-> class_type_counts(vs, c).momentum_classes,
     deloadClasses |-> class_type_counts(vs, c).deload_classes]

\* The calls of computeClientStats made on the drawn store: the position of
\* the call in flight and what each call returned, in order.
CsIdle == [pc |-> "idle", call |-> "none", clientId |-> Null, queries |-> <<>>,
           returned |-> <<>>]

(***************************************************************************)
(* computeCoachStats: the queries that decide NotFound, the time slots,    *)
(* the teaching streak and the badges.  The locations, students, months,   *)
(* popular day, class types and retention are sent as queries; their       *)
(* results are left out of the CoachStats record.                          *)
(***************************************************************************)
\* WHERE trainer_first_name = $1 AND trainer_last_name = $2 AND NOT cancelled
\* AND NOT missed AND class_date >= '2025-01-01' AND class_date < '2026-01-01'.
coach_visits(vs, first, last) ==
    {v \in vs : /\ v.trainer_first_name = first
                /\ v.trainer_last_name = last
                /\ ~v.cancelled /\ ~v.missed
                /\ v.class_date >= 1 /\ v.class_date < 366}

\* class_sessions: GROUP BY class_date, class_time, location_name.
class_sessions(vs, first, last) ==
    {<<v.class_date, v.class_time, v.location_name>> :
        v \in coach_visits(vs, first, last)}

\* COUNT(DISTINCT client_dupont_location_id) as class_size of the session
\* group of a date, time and location.
class_size(vs, first, last, session) ==
    Cardinality({v.client_dupont_location_id :
        v \in {w \in coach_visits(vs, first, last) :
                    <<w.class_date, w.class_time, w.location_name>> = session}})

\* The rows of all_visits that the LEFT JOIN gives a session: the equalities
\* of the ON clause fail when the time or the location is NULL.
JoinedVisits(vs, first, last) ==
    {v \in coach_visits(vs, first, last) :
        v.class_time # None /\ v.location_name # Null}

RECURSIVE SumClassSize(_, _, _, _)
\* The sum of cs.class_size over joined rows.
SumClassSize(vs, first, last, rows) ==
    IF rows = {} THEN 0
    ELSE LET v == CHOOSE w \in rows : TRUE
         IN class_size(vs, first, last,
                       <<v.class_date, v.class_time, v.location_name>>)
                + SumClassSize(vs, first, last, rows \ {v})

\* AVG(cs.class_size) FROM all_visits av LEFT JOIN class_sessions cs: the
\* mean over the rows of all_visits of the size of the row's session, NULL
\* (None) when no row has a session.
average_class_size(vs, first, last) ==
    LET rows == JoinedVisits(vs, first, last)
    IN IF rows = {} THEN None
       ELSE Some(Rat(SumClassSize(vs, first, last, rows), Cardinality(rows)))

\* parseFloat(parseFloat(x || "0").toFixed(1)) of a non-negative numeric: the
\* nearest tenth, in tenths.
ToFixed1(x) == IF x = None THEN 0 ELSE RoundRat(Rat(x[1].num * 10, x[1].den))

\* The first row of Coach Basic Stats.
BasicStatsRow(vs, first, last) ==
    [total_classes |-> Cardinality(class_sessions(vs, first, last)),
     unique_students |->
        Cardinality({v.client_dupont_location_id : v \in coach_visits(vs, first, last)}),
     total_student_visits |-> Cardinality(coach_visits(vs, first, last)),
     average_class_size |-> average_class_size(vs, first, last)]

\* class_date::text || '-' || class_time::text || '-' || location_name: NULL
\* (None) when the time or the location is NULL.
SessionKey(v) ==
    IF v.class_time = None \/ v.location_name = Null THEN None
    ELSE Some(<<v.class_date, v.class_time[1], v.location_name>>)

\* The CASE of the time slot query; a NULL hour fails every WHEN.
TimeSlotOf(v) ==
    IF v.class_time = None THEN "Night (After 7 PM)"
    ELSE IF v.class_time[1] < 6 THEN "Early Bird (Before 6 AM)"
    ELSE IF v.class_time[1] < 9 THEN "Morning (6-9 AM)"
    ELSE IF v.class_time[1] < 12 THEN "Late Morning (9 AM-12 PM)"
    ELSE IF v.class_time[1] < 17 THEN "Afternoon (12-5 PM)"
    ELSE IF v.class_time[1] < 19 THEN "Evening (5-7 PM)"
    ELSE "Night (After 7 PM)"

\* Coach Time Slots, GROUP BY time_slot, and allTimeSlots: class_count is
\* COUNT(DISTINCT key), which skips NULL keys.  The rows are kept as a set;
\* their order decides favoriteTimeSlot only.
AllTimeSlots(vs, first, last) ==
    LET rows == coach_visits(vs, first, last)
    IN {[timeSlot |-> slot,
         classCount |->
            Cardinality({SessionKey(v) : v \in {w \in rows : TimeSlotOf(w) = slot}}
                            \ {None})] :
            slot \in {TimeSlotOf(v) : v \in rows}}

\* allTimeSlots.find((slot) => slot.timeSlot.includes(word))?.classCount || 0
\* for the words "Early Bird" and "Night", each in one slot name.
ClassCountOf(slotName, allTimeSlots) ==
    IF \E slot \in allTimeSlots : slot.timeSlot = slotName
    THEN (CHOOSE slot \in allTimeSlots : slot.timeSlot = slotName).classCount
    ELSE 0

RECURSIVE SumClassCount(_)
\* allTimeSlots.reduce((sum, slot) => sum + slot.classCount, 0).
SumClassCount(allTimeSlots) ==
    IF allTimeSlots = {} THEN 0
    ELSE LET slot == CHOOSE s \in allTimeSlots : TRUE
         IN slot.classCount + SumClassCount(allTimeSlots \ {slot})

\* x > y for two positive doubles.
DoubleGreater(x, y) ==
    \/ x.exp > y.exp
    \/ /\ x.exp = y.exp
       /\ \/ x.hi > y.hi
          \/ x.hi = y.hi /\ x.mid > y.mid
          \/ x.hi = y.hi /\ x.mid = y.mid /\ x.lo > y.lo

BadgeAtThirtyPercent(classes, totalClassesForBadges) ==
    /\ totalClassesForBadges > 0
    /\ classes > 0
    /\ ~DoubleGreater(DoubleDiv(3, 10), DoubleDiv(classes, totalClassesForBadges))

\* totalClassesForBadges > 0 && classes / totalClassesForBadges > 0.3, in
\* doubles; the literal 0.3 is the double nearest to 3/10.
Badge(classes, totalClassesForBadges) ==
    /\ totalClassesForBadges > 0
    /\ classes > 0
    /\ DoubleGreater(DoubleDiv(classes, totalClassesForBadges), DoubleDiv(3, 10))

\* Coach Teaching Streak: the teaching days grouped by teaching_date minus
\* ROW_NUMBER() days, MAX of the group sizes; no row or NULL gives 0.
LongestTeachingStreak(vs, first, last) ==
    LET days == {v.class_date : v \in coach_visits(vs, first, last)}
        group(d) == d - Cardinality({e \in days : e <= d})
        lengths == {Cardinality({d \in days : group(d) = g}) :
                        g \in {group(d) : d \in days}}
    IN IF lengths = {} THEN 0 ELSE Maximum(lengths)

\* first_visits: MIN(class_date) of each student of the coach.
first_class_date(vs, first, last, student) ==
    Minimum({v.class_date : v \in {w \in coach_visits(vs, first, last) :
                                        w.client_dupont_location_id = student}})

return_visits_from_first_date(vs, first, last) ==
    {v.client_dupont_location_id :
        v \in {w \in coach_visits(vs, first, last) :
                 w.class_date >= first_class_date(vs, first, last,
                                                  w.client_dupont_location_id)}}

\* return_visits: the students with a visit whose class_date is after their
\* first_class_date.
return_visits(vs, first, last) ==
    {v.client_dupont_location_id :
        v \in {w \in coach_visits(vs, first, last) :
                 w.class_date > first_class_date(vs, first, last,
                                                 w.client_dupont_location_id)}}

\* (returning_students / total_first_time_students) * 100, then
\* parseFloat(studentRetentionRate.toFixed(1)): the nearest tenth, in tenths.
StudentRetentionRate(vs, first, last) ==
    LET total_first_time_students ==
            Cardinality({v.client_dupont_location_id :
                            v \in coach_visits(vs, first, last)})
        returning_students == Cardinality(return_visits(vs, first, last))
    IN IF total_first_time_students > 0
       THEN RoundRat(Rat(returning_students * 1000, total_first_time_students))
       ELSE 0

\* The CoachStats returned.
CoachStats(vs, first, last) ==
    LET basic == BasicStatsRow(vs, first, last)
        allTimeSlots == AllTimeSlots(vs, first, last)
        earlyMorningClasses == ClassCountOf("Early Bird (Before 6 AM)", allTimeSlots)
        nightClasses == ClassCountOf("Night (After 7 PM)", allTimeSlots)
        totalClassesForBadges == SumClassCount(allTimeSlots)
    IN [coachFirstName |-> first, coachLastName |-> last,
        totalClasses |-> basic.total_classes,
        totalStudentVisits |-> basic.total_student_visits,
        uniqueStudents |-> basic.unique_students,
        averageClassSize |-> ToFixed1(basic.average_class_size),
        allTimeSlots |-> allTimeSlots,
        studentRetentionRate |-> StudentRetentionRate(vs, first, last),
        longestTeachingStreak |-> LongestTeachingStreak(vs, first, last),
        earlyMorningWarrior |-> Badge(earlyMorningClasses, totalClassesForBadges),
        lateNightHero |-> Badge(nightClasses, totalClassesForBadges)]

\* The queries of computeCoachStats in the order it sends them.
CoachQueries ==
    <<"Coach Basic Stats", "Coach Locations", "Coach Top Students",
      "Coach Monthly Stats", "Coach Time Slots", "Coach Popular Day",
      "Coach Class Types", "Coach Retention Rate", "Coach Teaching Streak">>

\* One call of computeCoachStats: its position, the queries it has sent, the
\* query the store failed on, and what it returned.
CoIdle == [pc |-> "idle", first |-> Null, last |-> Null, queries |-> <<>>,
           failed |-> Null, outcome |-> "none", stats |-> None]

(***************************************************************************)
(* Module state of peerStats.ts and of the global stats module.            *)
(***************************************************************************)
PEER_STATS_CACHE_TTL_MS == 1 * TicksPerHour
MV_STALENESS_THRESHOLD_MS == 24 * TicksPerHour
GLOBAL_STATS_CACHE_TTL_MS == 1 * TicksPerHour
GLOBAL_MV_STALENESS_THRESHOLD_MS == 24 * TicksPerHour

\* Date.now() when the process starts serving.
StartTime == 26 * TicksPerHour

PeerCacheHitOffByOne ==
    /\ memberStatsCache # None
    /\ peerAveragesCache # None
    /\ now - peerStatsCacheTime + 1 < PEER_STATS_CACHE_TTL_MS

PeerCacheHitWithinTwoHours ==
    /\ memberStatsCache # None
    /\ peerAveragesCache # None
    /\ now - peerStatsCacheTime < 2 * PEER_STATS_CACHE_TTL_MS

PeerCacheHitOnGlobalTime ==
    /\ memberStatsCache # None
    /\ peerAveragesCache # None
    /\ now - globalStatsCacheTime < PEER_STATS_CACHE_TTL_MS

\* The condition of loadMemberStats's first if.
PeerCacheHit ==
    /\ memberStatsCache # None
    /\ peerAveragesCache # None
    /\ now - peerStatsCacheTime < PEER_STATS_CACHE_TTL_MS

GlobalCacheHitNever == FALSE

\* The condition of computeGlobalStats's first if.
GlobalCacheHit ==
    /\ globalStatsCache # None
    /\ now - globalStatsCacheTime < GLOBAL_STATS_CACHE_TTL_MS

(***************************************************************************)
(* One call of computeStatsForClient: its position, the two concurrent     *)
(* sub-computations it starts, and what it returned.                       *)
(***************************************************************************)
Requests == {"r1", "r2"}

PeerIdle ==
    [pc |-> "idle", queries |-> <<>>, source |-> Null, mvOutcome |-> Null,
     error |-> Null, stats |-> Null, averages |-> Null, clientStats |-> Null,
     percentiles |-> Null, result |-> Null]

GlobalIdle ==
    [pc |-> "idle", queries |-> <<>>, source |-> Null, mvOutcome |-> Null,
     error |-> Null, result |-> Null]

ReqIdle ==
    [pc |-> "idle", clientId |-> Null, connection |-> "none", released |-> 0,
     queries |-> <<>>, pending |-> <<>>, error |-> Null, clientStats |-> Null,
     peer |-> PeerIdle, global |-> GlobalIdle, outcome |-> Null, result |-> Null]

\* The six calculatePercentile calls of computePeerStats.
Percentiles(clientStats, stats) ==
    LET total(s) == RatInt(s.totalClasses)
        early(s) == s.earlyBirdScore
        cpm(s) == s.classesPerMonth
        late(s) == RatInt(s.lateBookings)
        canc(s) == RatInt(s.cancellations)
        weeks(s) == RatInt(s.perfectWeeks)
    IN [totalClasses |-> calculatePercentile(total(clientStats), Sort(Column(stats, total))),
        earlyBirdScore |-> calculatePercentile(early(clientStats), Sort(Column(stats, early))),
        classesPerMonth |-> calculatePercentile(cpm(clientStats), Sort(Column(stats, cpm))),
        lateBookings |-> calculatePercentile(late(clientStats), Sort(Column(stats, late))),
        cancellations |-> calculatePercentile(canc(clientStats), Sort(Column(stats, canc))),
        perfectWeeks |-> calculatePercentile(weeks(clientStats), Sort(Column(stats, weeks)))]

\* computePeerStats from the return of loadMemberStats up to its next await:
\* stats.find, then either the single-client query or the percentiles and
\* the classmates query.
AfterLoad(p, stats, averages, c, src) ==
    LET found == {i \in 1..Len(stats) : stats[i].clientId = c}
        loaded == [p EXCEPT !.source = src, !.stats = stats, !.averages = averages]
    IN IF found = {}
       THEN [loaded EXCEPT !.pc = "single_client_stats_live",
                           !.queries = Append(p.queries, "single_client_stats_live")]
       ELSE LET mine == stats[CHOOSE i \in found : \A j \in found : i <= j]
            IN [loaded EXCEPT !.pc = "top_classmates_live",
                              !.clientStats = mine,
                              !.percentiles = Percentiles(mine, stats),
                              !.queries = Append(p.queries, "top_classmates_live")]

\* computePeerStats up to its first await: loadMemberStats's cache check.
StartPeer(c) ==
    IF PeerCacheHit
    THEN AfterLoad(PeerIdle, memberStatsCache[1], peerAveragesCache[1], c, "cache")
    ELSE [PeerIdle EXCEPT !.pc = "peer_stats_mv", !.queries = <<"peer_stats_mv">>]

\* computeGlobalStats up to its first await.
StartGlobal ==
    IF GlobalCacheHit
    THEN [GlobalIdle EXCEPT !.pc = "done", !.source = "cache",
                            !.result = globalStatsCache[1]]
    ELSE [GlobalIdle EXCEPT !.pc = "global_stats_mv",
                            !.queries = <<"global_stats_mv">>]

\* A sub-computation that has a query of its own on the connection.
Waiting(sub) == sub.pc \notin {"idle", "done", "failed"}

\* The connection's query queue after the sub-computation `name` has had its
\* answer and run to its next await: a pg client sends the queries made on
\* one connection one at a time, in the order they were made.
Requeue(rq, name) ==
    [rq EXCEPT !.pending =
        Tail(rq.pending) \o (IF Waiting(rq[name]) THEN <<name>> ELSE <<>>)]

StartBothSequential(rq, c) ==
    LET peer == StartPeer(c)
    IN [rq EXCEPT !.pc = "parallel", !.peer = peer,
                  !.pending = IF Waiting(peer) THEN <<"peer">> ELSE <<>>]

\* const [peerComparison, globalStats] = await Promise.all([computePeerStats(..),
\* computeGlobalStats(..)]): both calls are made before the await.
StartBoth(rq, c) ==
    LET peer == StartPeer(c)
        global == StartGlobal
    IN [rq EXCEPT !.pc = "parallel", !.peer = peer, !.global = global,
                  !.pending = (IF Waiting(peer) THEN <<"peer">> ELSE <<>>)
                                \o (IF Waiting(global) THEN <<"global">> ELSE <<>>)]

ReleaseUnlessThrown(rq) ==
    IF rq.outcome = "error" THEN rq
    ELSE [rq EXCEPT !.connection = "released", !.released = rq.released + 1]

\* The finally block: dbClient.release().
Release(rq) ==
    [rq EXCEPT !.connection = "released", !.released = rq.released + 1]

\* What the await of Promise.all and the return after it do once a
\* sub-computation has settled: reject on the first failure, build the
\* record when both are fulfilled.  A direct call of computePeerStats or
\* computeGlobalStats ends when that computation does.
Settle(rq) ==
    IF rq.pc = "parallel"
    THEN IF rq.peer.pc = "failed" \/ rq.global.pc = "failed"
         THEN Release([rq EXCEPT !.pc = "done", !.outcome = "error"])
         ELSE IF rq.peer.pc = "done" /\ rq.global.pc = "done"
         THEN Release([rq EXCEPT !.pc = "done", !.outcome = "report",
                    !.result = [clientId |-> rq.clientId,
                                clientStats |-> rq.clientStats,
                                lastUpdated |-> now,
                                peerComparison |-> rq.peer.result,
                                globalStats |-> rq.global.result]])
         ELSE rq
    ELSE IF rq.pc = "computePeerStats" /\ ~Waiting(rq.peer)
    THEN [rq EXCEPT !.pc = "done",
                    !.outcome = IF rq.peer.pc = "failed" THEN "error" ELSE "peer"]
    ELSE IF rq.pc = "computeGlobalStats" /\ ~Waiting(rq.global)
    THEN [rq EXCEPT !.pc = "done",
                    !.outcome = IF rq.global.pc = "failed" THEN "error" ELSE "global"]
    ELSE rq

(***************************************************************************)
(* The snapshot store: the materialized views and their nightly refresh.   *)
(***************************************************************************)
WithComputedAt(rows, t) ==
    [i \in 1..Len(rows) |-> [row |-> rows[i], computed_at |-> t]]

\* The store the views were last refreshed from before the engine started.
SnapshotVisits == {v \in InitialVisits : v.class_date # 7}

InitialViews ==
    { [peer |-> [exists |-> FALSE, rows |-> <<>>],
       global |-> [exists |-> FALSE, rows |-> <<>>]],
      [peer |-> [exists |-> TRUE, rows |-> <<>>],
       global |-> [exists |-> TRUE, rows |-> <<>>]] }
    \cup
    { [peer |-> [exists |-> TRUE,
                 rows |-> WithComputedAt(AllMemberStatsRows(SnapshotVisits), t)],
       global |-> [exists |-> TRUE, rows |-> WithComputedAt(<<g>>, t)]] :
        t \in {StartTime - MV_STALENESS_THRESHOLD_MS},
        g \in GlobalStatsRows(SnapshotVisits) }

(***************************************************************************)
(* Initial state: the module-level lets of peerStats.ts and globalStats,   *)
(* no call in flight.                                                      *)
(***************************************************************************)
InitEngine ==
    /\ now = StartTime
    /\ visits = InitialVisits
    /\ clients = Directory
    /\ \E mv \in InitialViews : mvPeer = mv.peer /\ mvGlobal = mv.global
    /\ memberStatsCache = None
    /\ peerAveragesCache = None
    /\ peerStatsCacheTime = 0
    /\ globalStatsCache = None
    /\ globalStatsCacheTime = 0
    /\ req = [r \in Requests |-> ReqIdle]

Init == InitEngine /\ pct = PctIdle /\ cs = CsIdle /\ co = CoIdle

stores == <<visits, clients, mvPeer, mvGlobal>>
peerCache == <<memberStatsCache, peerAveragesCache, peerStatsCacheTime>>
globalCache == <<globalStatsCache, globalStatsCacheTime>>

SetPeerCache(w) ==
    /\ memberStatsCache' = w[1]
    /\ peerAveragesCache' = w[2]
    /\ peerStatsCacheTime' = w[3]

SetGlobalCache(w) ==
    /\ globalStatsCache' = w[1]
    /\ globalStatsCacheTime' = w[2]

\* A call that has ended and has no query of its own outstanding.
Returnable(r) ==
    /\ req[r].pc = "done"
    /\ ~Waiting(req[r].peer)
    /\ ~Waiting(req[r].global)

\* No ended call is still to be taken by its caller.  The continuation of a
\* settled promise runs before the event loop handles the next I/O event, so
\* the caller of an ended call has its result before anything else happens.
Quiet == \A r \in Requests : ~Returnable(r)

(***************************************************************************)
(* The environment: time, ingestion, the refresh of the views.             *)
(***************************************************************************)
Tick ==
    /\ Quiet
    /\ now < StartTime + MaxElapsed
    /\ now' = now + 1
    /\ UNCHANGED <<stores, peerCache, globalCache, req, pct, cs, co>>

IngestVisits ==
    /\ Quiet
    /\ \E b \in Batches : ~(b \subseteq visits) /\ visits' = visits \cup b
    /\ UNCHANGED <<now, clients, mvPeer, mvGlobal, peerCache, globalCache, req, pct, cs, co>>

\* SELECT * FROM refresh_stats_materialized_views()
RefreshViews ==
    /\ Quiet
    /\ mvPeer' = [exists |-> TRUE,
                  rows |-> WithComputedAt(AllMemberStatsRows(visits), now)]
    /\ \E g \in GlobalStatsRows(visits) :
            mvGlobal' = [exists |-> TRUE, rows |-> WithComputedAt(<<g>>, now)]
    /\ \A i \in 1..Len(mvPeer.rows) : mvPeer.rows[i].computed_at < StartTime
    /\ UNCHANGED <<now, visits, clients, peerCache, globalCache, req, pct, cs, co>>

(***************************************************************************)
(* computeStatsForClient and computeClientStats.                           *)
(***************************************************************************)
\* The totals of the client_combined_stats row.
ClientTotals(vs, c) ==
    [totalClasses |-> Cardinality(Attended(YearVisits(VisitsOf(vs, c)))),
     allTimeClasses |-> Cardinality(Attended(VisitsOf(vs, c))),
     totalCancellations |->
        Cardinality({v \in YearVisits(VisitsOf(vs, c)) : v.cancelled \/ v.missed})]

ConnectRegisteringClient(r, c) ==
    /\ Quiet
    /\ req[r].pc = "idle"
    /\ req' = [req EXCEPT ![r] = [ReqIdle EXCEPT
                    !.pc = "client_info_lookup", !.clientId = c,
                    !.connection = "held",
                    !.queries = <<"client_info_lookup">>]]
    /\ clients' = clients \cup {c}
    /\ UNCHANGED <<now, visits, mvPeer, mvGlobal, peerCache, globalCache, pct, cs, co>>

\* pool.connect() and the first query of computeClientStats.
Connect(r, c) ==
    /\ Quiet
    /\ req[r].pc = "idle"
    /\ req' = [req EXCEPT ![r] = [ReqIdle EXCEPT
                    !.pc = "client_info_lookup", !.clientId = c,
                    !.connection = "held",
                    !.queries = <<"client_info_lookup">>]]
    /\ UNCHANGED <<now, stores, peerCache, globalCache, pct, cs, co>>

\* The client_info_lookup answer: a failure is thrown through the finally,
\* no row returns null, a row issues the combined query.
ClientInfoLookup(r, err) ==
    LET rq == req[r]
    IN /\ Quiet
       /\ rq.pc = "client_info_lookup"
       /\ req' = [req EXCEPT ![r] =
            IF err THEN Release([rq EXCEPT !.pc = "done", !.outcome = "error",
                                           !.error = "client_info_lookup"])
            ELSE IF rq.clientId \notin clients
            THEN Release([rq EXCEPT !.pc = "done", !.outcome = "notfound"])
            ELSE [rq EXCEPT !.pc = "client_combined_stats",
                            !.queries = Append(rq.queries, "client_combined_stats")]]
       /\ UNCHANGED <<now, stores, peerCache, globalCache, pct, cs, co>>

\* The client_combined_stats answer, the return of computeClientStats and
\* the start of both sub-computations.
ClientCombinedStats(r, err) ==
    LET rq == req[r]
    IN /\ Quiet
       /\ rq.pc = "client_combined_stats"
       /\ req' = [req EXCEPT ![r] =
            IF err THEN Release([rq EXCEPT !.pc = "done", !.outcome = "error",
                                           !.error = "client_combined_stats"])
            ELSE Settle(StartBoth(
                    [rq EXCEPT !.clientStats = ClientTotals(visits, rq.clientId)],
                    rq.clientId))]
       /\ UNCHANGED <<now, stores, peerCache, globalCache, pct, cs, co>>

\* A finished call leaves; its slot takes the next request.
Return(r) ==
    /\ Returnable(r)
    /\ req' = [req EXCEPT ![r] = ReqIdle]
    /\ UNCHANGED <<now, stores, peerCache, globalCache, pct, cs, co>>

(***************************************************************************)
(* loadMemberStats, tryGetPeerStatsFromMaterializedView,                   *)
(* loadMemberStatsLive and the rest of computePeerStats.                   *)
(***************************************************************************)
Rows(mv) == [i \in 1..Len(mv) |-> mv[i].row]

\* The sub-computation `name` of call r gets the answer of its query.
Answered(r, name, at) ==
    /\ Quiet
    /\ req[r][name].pc = at
    /\ req[r].pending # <<>>
    /\ Head(req[r].pending) = name

\* The call r with its sub-computation `name` run to its next await.
Resumed(r, name, sub) ==
    [req EXCEPT ![r] = Settle(Requeue([req[r] EXCEPT ![name] = sub], name))]

PeerMvOutcomeRethrow(err) ==
    IF ~mvPeer.exists THEN "missing"
    ELSE IF err THEN "thrown"
    ELSE IF Len(mvPeer.rows) = 0 THEN "empty"
    ELSE IF now - mvPeer.rows[1].computed_at > MV_STALENESS_THRESHOLD_MS THEN "stale"
    ELSE "ok"

PeerMvOutcomeNoStaleCheck(err) ==
    IF ~mvPeer.exists THEN "missing"
    ELSE IF err THEN "error"
    ELSE IF Len(mvPeer.rows) = 0 THEN "empty"
    ELSE "ok"

PeerMvOutcomeMissingThrown(err) ==
    IF ~mvPeer.exists THEN "thrown"
    ELSE IF err THEN "error"
    ELSE IF Len(mvPeer.rows) = 0 THEN "empty"
    ELSE IF now - mvPeer.rows[1].computed_at > MV_STALENESS_THRESHOLD_MS THEN "stale"
    ELSE "ok"

\* How the peer_stats_mv query ends in tryGetPeerStatsFromMaterializedView:
\* error 42P01 for a missing relation, another error, no rows, a first row
\* older than the threshold, or usable rows.  ("thrown", an error that
\* leaves the function, is an outcome the code does not have.)
PeerMvOutcome(err) ==
    IF ~mvPeer.exists THEN "missing"
    ELSE IF err THEN "error"
    ELSE IF Len(mvPeer.rows) = 0 THEN "empty"
    ELSE IF now - mvPeer.rows[1].computed_at > MV_STALENESS_THRESHOLD_MS THEN "stale"
    ELSE "ok"

PeerCacheWriteStatsOnly(stats, averages) ==
    <<Some(stats), peerAveragesCache, now>>

PeerCacheWriteOldTime(stats, averages) ==
    <<Some(stats), Some(averages), peerStatsCacheTime>>

\* memberStatsCache = stats; peerAveragesCache = averages;
\* peerStatsCacheTime = Date.now();
PeerCacheWrite(stats, averages) == <<Some(stats), Some(averages), now>>

PeerCacheKeep == <<memberStatsCache, peerAveragesCache, peerStatsCacheTime>>

\* The peer_stats_mv answer.  Usable rows are mapped, averaged, cached and
\* returned; every other outcome returns null, on which loadMemberStats
\* calls loadMemberStatsLive, which issues its query.
PeerStatsMv(r, err) ==
    LET p == req[r].peer
        outcome == PeerMvOutcome(err)
        stats == MapMemberStats(Rows(mvPeer.rows))
        averages == ComputeAverages(stats)
    IN /\ Answered(r, "peer", "peer_stats_mv")
       /\ IF outcome = "ok"
          THEN /\ SetPeerCache(PeerCacheWrite(stats, averages))
               /\ req' = Resumed(r, "peer",
                    AfterLoad([p EXCEPT !.mvOutcome = outcome],
                              stats, averages, req[r].clientId, "mv"))
          ELSE IF outcome = "thrown"
          THEN /\ SetPeerCache(PeerCacheKeep)
               /\ req' = Resumed(r, "peer",
                    [p EXCEPT !.pc = "failed", !.mvOutcome = outcome])
          ELSE /\ SetPeerCache(PeerCacheKeep)
               /\ req' = Resumed(r, "peer",
                    [p EXCEPT !.pc = "all_member_stats_live",
                              !.mvOutcome = outcome,
                              !.queries = Append(p.queries, "all_member_stats_live")])
       /\ UNCHANGED <<now, stores, globalCache, pct, cs, co>>

AllMemberStatsLiveClearingOnError(r, err) ==
    LET p == req[r].peer
        stats == MapMemberStats(AllMemberStatsRows(visits))
        averages == ComputeAverages(stats)
    IN /\ Answered(r, "peer", "all_member_stats_live")
       /\ IF err
          THEN /\ SetPeerCache(<<None, None, 0>>)
               /\ req' = Resumed(r, "peer",
                    [p EXCEPT !.pc = "failed", !.error = "all_member_stats_live"])
          ELSE /\ SetPeerCache(PeerCacheWrite(stats, averages))
               /\ req' = Resumed(r, "peer",
                    AfterLoad(p, stats, averages, req[r].clientId, "live"))
       /\ UNCHANGED <<now, stores, globalCache, pct, cs, co>>

\* The all_member_stats_live answer: a failure is thrown to the caller,
\* rows are mapped, averaged, cached and returned.
AllMemberStatsLive(r, err) ==
    LET p == req[r].peer
        stats == MapMemberStats(AllMemberStatsRows(visits))
        averages == ComputeAverages(stats)
    IN /\ Answered(r, "peer", "all_member_stats_live")
       /\ IF err
          THEN /\ SetPeerCache(PeerCacheKeep)
               /\ req' = Resumed(r, "peer",
                    [p EXCEPT !.pc = "failed", !.error = "all_member_stats_live"])
          ELSE /\ SetPeerCache(PeerCacheWrite(stats, averages))
               /\ req' = Resumed(r, "peer",
                    AfterLoad(p, stats, averages, req[r].clientId, "live"))
       /\ UNCHANGED <<now, stores, globalCache, pct, cs, co>>

\* calculateClientStatsLive: the zero snapshot for no row, else the row.
ClientStatsLive(vs, c) ==
    LET rows == SingleClientStatsRows(vs, c)
    IN IF Len(rows) = 0 THEN ZeroStats(c)
       ELSE [ToMemberStats(rows[1]) EXCEPT !.clientId = c]

\* The single_client_stats_live answer, the percentiles and the issue of
\* the classmates query.
SingleClientStatsLive(r, err) ==
    LET p == req[r].peer
        mine == ClientStatsLive(visits, req[r].clientId)
    IN /\ Answered(r, "peer", "single_client_stats_live")
       /\ req' = Resumed(r, "peer",
            IF err THEN [p EXCEPT !.pc = "failed",
                                  !.error = "single_client_stats_live"]
            ELSE [p EXCEPT !.pc = "top_classmates_live",
                           !.clientStats = mine,
                           !.percentiles = Percentiles(mine, p.stats),
                           !.queries = Append(p.queries, "top_classmates_live")])
       /\ UNCHANGED <<now, stores, peerCache, globalCache, pct, cs, co>>

\* The PeerStatsResult computePeerStats returns.
PeerStatsResult(p, topClassmates) ==
    [averageClassesPerMonth |-> p.averages.avgClassesPerMonth,
     averageEarlyBirdScore |-> p.averages.avgEarlyBirdScore,
     averageLateBookings |-> p.averages.avgLateBookings,
     averageCancellations |-> p.averages.avgCancellations,
     topClassmates |-> topClassmates,
     percentiles |-> p.percentiles]

\* The top_classmates_live answer and the return of computePeerStats.
TopClassmatesLive(r, err) ==
    LET p == req[r].peer
    IN /\ Answered(r, "peer", "top_classmates_live")
       /\ \E rows \in TopClassmatesRows(visits, clients, req[r].clientId) :
            req' = Resumed(r, "peer",
                IF err THEN [p EXCEPT !.pc = "failed",
                                      !.error = "top_classmates_live"]
                ELSE [p EXCEPT !.pc = "done",
                        !.result = PeerStatsResult(p,
                            ToClassmates(visits, req[r].clientId, rows))])
       /\ UNCHANGED <<now, stores, peerCache, globalCache, pct, cs, co>>

(***************************************************************************)
(* computeGlobalStats, tryGetGlobalStatsFromMaterializedView and           *)
(* computeGlobalStatsLive.                                                 *)
(***************************************************************************)
GlobalMvOutcomeNoStaleCheck(err) ==
    IF ~mvGlobal.exists THEN "missing"
    ELSE IF err THEN "error"
    ELSE IF Len(mvGlobal.rows) = 0 THEN "empty"
    ELSE "ok"

\* How the global_stats_mv query ends.
GlobalMvOutcome(err) ==
    IF ~mvGlobal.exists THEN "missing"
    ELSE IF err THEN "error"
    ELSE IF Len(mvGlobal.rows) = 0 THEN "empty"
    ELSE IF now - mvGlobal.rows[1].computed_at > GLOBAL_MV_STALENESS_THRESHOLD_MS
    THEN "stale"
    ELSE "ok"

GlobalCacheWriteOldTime(result) == <<Some(result), globalStatsCacheTime>>

\* globalStatsCache = result; globalStatsCacheTime = Date.now();
GlobalCacheWrite(result) == <<Some(result), now>>

GlobalCacheKeep == <<globalStatsCache, globalStatsCacheTime>>

\* The global_stats_mv answer: a usable row is converted, cached by
\* computeGlobalStats and returned; otherwise the live query is issued.
GlobalStatsMv(r, err) ==
    LET g == req[r].global
        outcome == GlobalMvOutcome(err)
    IN /\ Answered(r, "global", "global_stats_mv")
       /\ IF outcome = "ok"
          THEN /\ SetGlobalCache(GlobalCacheWrite(ToGlobalStats(mvGlobal.rows[1].row)))
               /\ req' = Resumed(r, "global",
                    [g EXCEPT !.pc = "done", !.source = "mv", !.mvOutcome = outcome,
                              !.result = ToGlobalStats(mvGlobal.rows[1].row)])
          ELSE /\ SetGlobalCache(GlobalCacheKeep)
               /\ req' = Resumed(r, "global",
                    [g EXCEPT !.pc = "global_stats_live", !.mvOutcome = outcome,
                              !.queries = Append(g.queries, "global_stats_live")])
       /\ UNCHANGED <<now, stores, peerCache, pct, cs, co>>

\* The global_stats_live answer: a failure is thrown, a row is converted,
\* cached and returned.
GlobalStatsLive(r, err) ==
    LET g == req[r].global
    IN /\ Answered(r, "global", "global_stats_live")
       /\ IF err
          THEN /\ SetGlobalCache(GlobalCacheKeep)
               /\ req' = Resumed(r, "global",
                    [g EXCEPT !.pc = "failed", !.error = "global_stats_live"])
          ELSE \E row \in GlobalStatsRows(visits) :
               /\ SetGlobalCache(GlobalCacheWrite(ToGlobalStats(row)))
               /\ req' = Resumed(r, "global",
                    [g EXCEPT !.pc = "done", !.source = "live",
                              !.result = ToGlobalStats(row)])
       /\ UNCHANGED <<now, stores, peerCache, pct, cs, co>>

(***************************************************************************)
(* The orchestrator: one computeStatsForClient call at a time, for members *)
(* in and out of the directory, over stores that change under it.          *)
(***************************************************************************)
RequestedIds == {"m1", "m2", "m9"}

Environment == Tick \/ IngestVisits \/ RefreshViews

PeerSteps ==
    \/ \E r \in Requests, err \in BOOLEAN : PeerStatsMv(r, err)
    \/ \E r \in Requests, err \in BOOLEAN : AllMemberStatsLive(r, err)
    \/ \E r \in Requests, err \in BOOLEAN : SingleClientStatsLive(r, err)
    \/ \E r \in Requests, err \in BOOLEAN : TopClassmatesLive(r, err)

GlobalSteps ==
    \/ \E r \in Requests, err \in BOOLEAN : GlobalStatsMv(r, err)
    \/ \E r \in Requests, err \in BOOLEAN : GlobalStatsLive(r, err)

Next ==
    \/ Environment
    \/ \E c \in RequestedIds : Connect("r1", c)
    \/ \E r \in Requests, err \in BOOLEAN : ClientInfoLookup(r, err)
    \/ \E r \in Requests, err \in BOOLEAN : ClientCombinedStats(r, err)
    \/ PeerSteps
    \/ GlobalSteps
    \/ \E r \in Requests : Return(r)

Spec == Init /\ [][Next]_vars

(***************************************************************************)
(* The population cache under concurrent callers of computePeerStats.      *)
(***************************************************************************)
\* computePeerStats(client, dupontLocationId) called on a caller's connection.
CallPeerStats(r, c) ==
    /\ Quiet
    /\ req[r].pc = "idle"
    /\ LET peer == StartPeer(c)
       IN req' = [req EXCEPT ![r] = Settle([ReqIdle EXCEPT
                    !.pc = "computePeerStats", !.clientId = c, !.peer = peer,
                    !.pending = IF Waiting(peer) THEN <<"peer">> ELSE <<>>])]
    /\ UNCHANGED <<now, stores, peerCache, globalCache, pct, cs, co>>

NextPeer ==
    \/ Environment
    \/ \E c \in Directory : CallPeerStats("r1", c)
    \/ req["r1"].pc # "idle" /\ CallPeerStats("r2", "m1")
    \/ PeerSteps
    \/ \E r \in Requests : Return(r)

SpecPeer == Init /\ [][NextPeer]_vars

(***************************************************************************)
(* The global-stats cache under concurrent callers of computeGlobalStats.  *)
(***************************************************************************)
\* computeGlobalStats(client) called on a caller's connection.
CallGlobalStats(r) ==
    /\ Quiet
    /\ req[r].pc = "idle"
    /\ LET global == StartGlobal
       IN req' = [req EXCEPT ![r] = Settle([ReqIdle EXCEPT
                    !.pc = "computeGlobalStats", !.global = global,
                    !.pending = IF Waiting(global) THEN <<"global">> ELSE <<>>])]
    /\ UNCHANGED <<now, stores, peerCache, globalCache, pct, cs, co>>

NextGlobal ==
    \/ Environment
    \/ \E r \in Requests : CallGlobalStats(r)
    \/ GlobalSteps
    \/ \E r \in Requests : Return(r)

SpecGlobal == Init /\ [][NextGlobal]_vars

(***************************************************************************)
(* calculatePercentile on drawn inputs: two members' values against one    *)
(* sorted population.                                                      *)
(***************************************************************************)
ProbeValues == {RatInt(k) : k \in 0..(MaxVal + 1)} \cup {RatInt(30)}

InitPct ==
    /\ now = StartTime
    /\ visits = InitialVisits
    /\ clients = Directory
    /\ mvPeer = [exists |-> FALSE, rows |-> <<>>]
    /\ mvGlobal = [exists |-> FALSE, rows |-> <<>>]
    /\ memberStatsCache = None
    /\ peerAveragesCache = None
    /\ peerStatsCacheTime = 0
    /\ globalStatsCache = None
    /\ globalStatsCacheTime = 0
    /\ req = [r \in Requests |-> ReqIdle]
    /\ \E S \in Populations, v \in ProbeValues, w \in ProbeValues :
            pct = [PctIdle EXCEPT !.sortedValues = S, !.value = v, !.other = w]
    /\ cs = CsIdle
    /\ co = CoIdle

CallPercentile ==
    /\ ~pct.called
    /\ pct' = [pct EXCEPT
            !.called = TRUE,
            !.result = calculatePercentile(pct.value, pct.sortedValues),
            !.otherResult = calculatePercentile(pct.other, pct.sortedValues)]
    /\ UNCHANGED <<engineVars, cs, co>>

NextPct == CallPercentile

SpecPct == InitPct /\ [][NextPct]_vars

(***************************************************************************)
(* computeClientStats on drawn stores: one member's visits drawn from a    *)
(* pool, the computation called twice for a member with visits, a member   *)
(* without and an identifier outside the directory.                        *)
(***************************************************************************)
\* The visits a drawn store may hold: a run of three days with two classes on
\* one of them, a cancelled class on the fourth day, a class on the fifth, a
\* later pair of days, a class with no time, place or coach, and a class
\* outside the reporting year.
VisitPool ==
    { Visit("m1", 6, Some(6), "Dupont", Ann, FALSE, FALSE, None),
      Visit("m1", 7, Some(6), "Dupont", Ann, FALSE, FALSE, None),
      Visit("m1", 7, Some(18), "Logan", Bob, FALSE, FALSE, Some(7 * 24 + 17)),
      Visit("m1", 8, Some(18), "Logan", Bob, FALSE, FALSE, None),
      Visit("m1", 9, Some(6), "Dupont", Ann, TRUE, FALSE, None),
      Visit("m1", 10, Some(7), "Logan", Bob, FALSE, FALSE, None),
      Visit("m1", 20, Some(6), "Dupont", Ann, FALSE, FALSE, None),
      Visit("m1", 21, None, Null, None, FALSE, FALSE, None),
      Visit("m1", 400, Some(6), "Dupont", Ann, FALSE, FALSE, None) }

InitClient ==
    /\ now = StartTime
    /\ visits \in SUBSET VisitPool
    /\ clients = Directory
    /\ mvPeer = [exists |-> FALSE, rows |-> <<>>]
    /\ mvGlobal = [exists |-> FALSE, rows |-> <<>>]
    /\ memberStatsCache = None
    /\ peerAveragesCache = None
    /\ peerStatsCacheTime = 0
    /\ globalStatsCache = None
    /\ globalStatsCacheTime = 0
    /\ req = [r \in Requests |-> ReqIdle]
    /\ pct = PctIdle
    /\ cs = CsIdle
    /\ co = CoIdle

\* What a call gave back: thrown, null, or the stats, and the queries it sent.
Returned(call, outcome, stats) ==
    [CsIdle EXCEPT
        !.call = call.call,
        !.clientId = call.clientId,
        !.returned = Append(call.returned,
            [outcome |-> outcome, stats |-> stats, queries |-> call.queries])]

\* computeClientStats(client, clientId) is called and sends client_info_lookup;
\* the second call is for the member of the first.
ComputeClientStats(c) ==
    /\ cs.pc = "idle"
    /\ cs.call \in {"none", "first"}
    /\ cs.call = "first" => c = cs.clientId
    /\ cs' = [cs EXCEPT !.pc = "client_info_lookup", !.clientId = c,
                        !.call = IF cs.call = "none" THEN "first" ELSE "second",
                        !.queries = <<"client_info_lookup">>]
    /\ UNCHANGED <<engineVars, pct, co>>

ClientInfoResultNullWithoutVisits(err) ==
    /\ cs.pc = "client_info_lookup"
    /\ cs' = IF err THEN Returned(cs, "thrown", None)
             ELSE IF all_time_visits(visits, cs.clientId) = {}
             THEN Returned(cs, "null", None)
             ELSE [cs EXCEPT !.pc = "client_combined_stats",
                             !.queries = Append(cs.queries, "client_combined_stats")]
    /\ UNCHANGED <<engineVars, pct, co>>

\* The answer to client_info_lookup: a store error is thrown to the caller,
\* no row returns null, a row sends client_combined_stats.
ClientInfoResult(err) ==
    /\ cs.pc = "client_info_lookup"
    /\ cs' = IF err THEN Returned(cs, "thrown", None)
             ELSE IF cs.clientId \notin clients THEN Returned(cs, "null", None)
             ELSE [cs EXCEPT !.pc = "client_combined_stats",
                             !.queries = Append(cs.queries, "client_combined_stats")]
    /\ UNCHANGED <<engineVars, pct, co>>

\* The answer to client_combined_stats and the return of the result.
CombinedResult(err) ==
    /\ cs.pc = "client_combined_stats"
    /\ \E row \in RowOrders(visits, cs.clientId) :
        cs' = IF err THEN Returned(cs, "thrown", None)
              ELSE Returned(cs, "stats",
                            Some(ClientStatsResult(visits, cs.clientId, row)))
    /\ UNCHANGED <<engineVars, pct, co>>

\* Stores for the early-bird score: a member's classes at 06:00 and at 12:00
\* in drawn numbers, with or without an attended class that has no time and
\* a cancelled class at 06:00.
EarlyBirdStores ==
    {{Visit("m1", d, Some(6), "Dupont", Ann, FALSE, FALSE, None) : d \in 1..early}
        \cup {Visit("m1", d, Some(12), "Dupont", Ann, FALSE, FALSE, None) :
                    d \in 1..midday}
        \cup untimed \cup cancelled :
            early \in 0..MaxEarly, midday \in 0..MaxMidday,
            untimed \in {{}, {Visit("m1", 20, None, "Dupont", Ann, FALSE, FALSE, None)}},
            cancelled \in {{}, {Visit("m1", 21, Some(6), "Dupont", Ann, TRUE, FALSE, None)}}}

InitEarlyBird ==
    /\ now = StartTime
    /\ visits \in EarlyBirdStores
    /\ clients = Directory
    /\ mvPeer = [exists |-> FALSE, rows |-> <<>>]
    /\ mvGlobal = [exists |-> FALSE, rows |-> <<>>]
    /\ memberStatsCache = None
    /\ peerAveragesCache = None
    /\ peerStatsCacheTime = 0
    /\ globalStatsCache = None
    /\ globalStatsCacheTime = 0
    /\ req = [r \in Requests |-> ReqIdle]
    /\ pct = PctIdle
    /\ cs = CsIdle
    /\ co = CoIdle

NextClient ==
    \/ \E i \in 1..Len(ClientIds) : ComputeClientStats(ClientIds[i])
    \/ \E err \in BOOLEAN : ClientInfoResult(err)
    \/ \E err \in BOOLEAN : CombinedResult(err)

SpecClient == InitClient /\ [][NextClient]_vars

SpecEarlyBird == InitEarlyBird /\ [][NextClient]_vars

(***************************************************************************)
(* computeCoachStats on drawn stores: a coach's sessions before 6am, at    *)
(* noon, after 7pm and without a class time, in drawn numbers.             *)
(***************************************************************************)
\* n sessions of Ann's at the given hour, on the days 1..n, one student each.
SessionsAt(n, hour) ==
    {Visit("m1", d, Some(hour), "Dupont", Ann, FALSE, FALSE, None) : d \in 1..n}

\* Visits that may be in the store besides: a second student in the first
\* early session, an early class of Ann's that was cancelled, and an early
\* class of hers outside the year.
OtherVisits ==
    { Visit("m2", 1, Some(5), "Dupont", Ann, FALSE, FALSE, None),
      Visit("m1", 30, Some(5), "Dupont", Ann, TRUE, FALSE, None),
      Visit("m1", 400, Some(5), "Dupont", Ann, FALSE, FALSE, None) }

\* Always in the store: one early session of Bob's.
BobsSession == Visit("m1", 31, Some(5), "Dupont", Bob, FALSE, FALSE, None)

\* A session of Ann's with no class time.
UntimedSession == Visit("m1", 20, None, "Dupont", Ann, FALSE, FALSE, None)

CoachStores ==
    {SessionsAt(early, 5) \cup SessionsAt(midday, 12) \cup SessionsAt(night, 19)
        \cup untimed \cup others \cup {BobsSession} :
            early \in 0..MaxEarly, midday \in 0..MaxMidday, night \in 0..MaxNight,
            untimed \in {{}, {UntimedSession}}, others \in SUBSET OtherVisits}

\* The coaches asked for: Cy Poe has no visit in any store.
Coaches == {Ann, Bob, <<"Cy", "Poe">>}

InitCoach ==
    /\ now = StartTime
    /\ visits \in CoachStores
    /\ clients = Directory
    /\ mvPeer = [exists |-> FALSE, rows |-> <<>>]
    /\ mvGlobal = [exists |-> FALSE, rows |-> <<>>]
    /\ memberStatsCache = None
    /\ peerAveragesCache = None
    /\ peerStatsCacheTime = 0
    /\ globalStatsCache = None
    /\ globalStatsCacheTime = 0
    /\ req = [r \in Requests |-> ReqIdle]
    /\ pct = PctIdle
    /\ cs = CsIdle
    /\ co = CoIdle

\* computeCoachStats(dbClient, coachFirstName, coachLastName) is called and
\* sends Coach Basic Stats.
ComputeCoachStats(first, last) ==
    /\ co.pc = "idle"
    /\ co.outcome = "none"
    /\ co' = [co EXCEPT !.pc = CoachQueries[1], !.first = first, !.last = last,
                        !.queries = <<CoachQueries[1]>>]
    /\ UNCHANGED <<engineVars, pct, cs>>

\* catch (error) { console.error(...); throw error; }
Rethrown(call) ==
    [call EXCEPT !.pc = "idle", !.failed = call.pc, !.outcome = "thrown"]

BasicStatsErrorAsNull(err) ==
    /\ co.pc = CoachQueries[1]
    /\ co' = IF err THEN [co EXCEPT !.pc = "idle", !.failed = co.pc,
                                    !.outcome = "null"]
             ELSE IF BasicStatsRow(visits, co.first, co.last).total_classes = 0
             THEN [co EXCEPT !.pc = "idle", !.outcome = "null"]
             ELSE [co EXCEPT !.pc = CoachQueries[2],
                             !.queries = Append(co.queries, CoachQueries[2])]
    /\ UNCHANGED <<engineVars, pct, cs>>

\* The answer to Coach Basic Stats: total_classes 0 returns null, else the
\* locations query is sent.
BasicStats(err) ==
    /\ co.pc = CoachQueries[1]
    /\ co' = IF err THEN Rethrown(co)
             ELSE IF BasicStatsRow(visits, co.first, co.last).total_classes = 0
             THEN [co EXCEPT !.pc = "idle", !.outcome = "null"]
             ELSE [co EXCEPT !.pc = CoachQueries[2],
                             !.queries = Append(co.queries, CoachQueries[2])]
    /\ UNCHANGED <<engineVars, pct, cs>>

\* The answer to one of the queries 2 to 8: the next query is sent.
LaterQueryResult(err) ==
    /\ \E k \in 2..(Len(CoachQueries) - 1) :
        /\ co.pc = CoachQueries[k]
        /\ co' = IF err THEN Rethrown(co)
                 ELSE [co EXCEPT !.pc = CoachQueries[k + 1],
                                 !.queries = Append(co.queries, CoachQueries[k + 1])]
    /\ UNCHANGED <<engineVars, pct, cs>>

\* The answer to Coach Teaching Streak, the badges and the return.
StreakResult(err) ==
    /\ co.pc = CoachQueries[Len(CoachQueries)]
    /\ co' = IF err THEN Rethrown(co)
             ELSE [co EXCEPT !.pc = "idle", !.outcome = "stats",
                             !.stats = Some(CoachStats(visits, co.first, co.last))]
    /\ UNCHANGED <<engineVars, pct, cs>>

NextCoach ==
    \/ \E coach \in Coaches : ComputeCoachStats(coach[1], coach[2])
    \/ \E err \in BOOLEAN : BasicStats(err)
    \/ \E err \in BOOLEAN : LaterQueryResult(err)
    \/ \E err \in BOOLEAN : StreakResult(err)

SpecCoach == InitCoach /\ [][NextCoach]_vars

(***************************************************************************)
(* computeClientStats and computeCoachStats on the same drawn stores.  The *)
(* two computations share no state, so a behaviour runs calls of one of    *)
(* them.                                                                   *)
(***************************************************************************)
NextStreak ==
    \/ co = CoIdle /\ NextClient
    \/ cs = CsIdle /\ NextCoach

SpecStreak == InitClient /\ [][NextStreak]_vars

(***************************************************************************)
(* Properties of the population cache, checked on SpecPeer.                *)
(***************************************************************************)
OneHour == TicksPerHour
OneDay == 24 * TicksPerHour

Range(s) == {s[i] : i \in DOMAIN s}

\* The queries loadMemberStats can issue.
LoadQueries == {"peer_stats_mv", "all_member_stats_live"}

\* The rows a live recomputation over the visit store gives right now.
LiveStats == MapMemberStats(AllMemberStatsRows(visits))

\* A cache entry exists and is less than one hour old.
FreshEntry ==
    /\ memberStatsCache # None
    /\ peerAveragesCache # None
    /\ now - peerStatsCacheTime < OneHour

\* C1: a call of loadMemberStats made while a cache entry exists that was
\* stored less than one hour ago returns exactly the cached stats and averages
\* and issues neither the snapshot query nor the live query, and leaves the
\* cache as it is, whatever the stores hold by then.
C1_CacheHitReturnsCachedPair ==
    [][\A r \in Requests :
        (req[r].peer.pc = "idle" /\ req'[r].peer.pc # "idle" /\ FreshEntry)
            => /\ req'[r].peer.source = "cache"
               /\ req'[r].peer.stats = memberStatsCache[1]
               /\ req'[r].peer.averages = peerAveragesCache[1]
               /\ Range(req'[r].peer.queries) \cap LoadQueries = {}
               /\ UNCHANGED peerCache]_vars

\* A call served from the cache after the visit store has moved on.
C1_Witness ==
    \E r \in Requests :
        /\ req[r].peer.source = "cache"
        /\ req[r].peer.stats = memberStatsCache[1]
        /\ req[r].peer.stats # LiveStats

\* The snapshot has a row and its computed_at is more than 24 hours old.
StaleSnapshot ==
    /\ mvPeer.exists
    /\ Len(mvPeer.rows) > 0
    /\ now - mvPeer.rows[1].computed_at > OneDay

\* C2: when the snapshot query of a call that missed the cache is answered
\* from a view whose computed_at is more than 24 hours old, the call goes on
\* to the live query without returning or caching the view's rows; and a live
\* query that completes returns the live recomputation and stores exactly
\* that in the cache.
C2_StaleSnapshotFallsBackToLive ==
    [][\A r \in Requests :
        LET p == req[r].peer
            q == req'[r].peer
        IN /\ (p.pc = "peer_stats_mv" /\ q.pc # "peer_stats_mv" /\ StaleSnapshot)
                => /\ q.pc = "all_member_stats_live"
                   /\ q.source = Null
                   /\ UNCHANGED peerCache
           /\ (p.pc = "all_member_stats_live"
                    /\ q.pc \notin {"all_member_stats_live", "failed"})
                => /\ q.source = "live"
                   /\ q.stats = LiveStats
                   /\ q.averages = ComputeAverages(LiveStats)
                   /\ memberStatsCache' = Some(LiveStats)
                   /\ peerAveragesCache' = Some(ComputeAverages(LiveStats))]_vars

\* A call that found the snapshot stale, returned live rows that differ
\* from the snapshot's, and left them in the cache.
C2_Witness ==
    \E r \in Requests :
        /\ req[r].peer.mvOutcome = "stale"
        /\ req[r].peer.source = "live"
        /\ StaleSnapshot
        /\ req[r].peer.stats # MapMemberStats(Rows(mvPeer.rows))
        /\ memberStatsCache = Some(req[r].peer.stats)

\* C3: a snapshot query answered by a missing relation or by no rows raises
\* no error and leads to the live query; a call that misses the cache asks
\* the snapshot first; and the queries of a load are always the snapshot
\* query followed, if at all, by the live query.
C3_MissingOrEmptySnapshotIsNotAnError ==
    /\ [](\A r \in Requests :
            LET load == SelectSeq(req[r].peer.queries, LAMBDA x : x \in LoadQueries)
            IN /\ load \in {<<>>, <<"peer_stats_mv">>,
                            <<"peer_stats_mv", "all_member_stats_live">>}
               /\ req[r].peer.source = "cache" => load = <<>>
               /\ req[r].peer.source = "mv" => load = <<"peer_stats_mv">>
               /\ req[r].peer.source = "live"
                    => load = <<"peer_stats_mv", "all_member_stats_live">>)
    /\ [][\A r \in Requests :
            LET p == req[r].peer
                q == req'[r].peer
            IN /\ (p.pc = "idle" /\ q.pc # "idle" /\ ~FreshEntry)
                    => q.pc = "peer_stats_mv" /\ q.queries = <<"peer_stats_mv">>
               /\ (p.pc = "peer_stats_mv" /\ q.pc # "peer_stats_mv"
                        /\ (~mvPeer.exists \/ Len(mvPeer.rows) = 0))
                    => /\ q.pc = "all_member_stats_live"
                       /\ q.error = Null
                       /\ q.queries = <<"peer_stats_mv", "all_member_stats_live">>]_vars

\* A call that met a missing or an empty view and returned live rows.
C3_Witness ==
    \E r \in Requests :
        /\ req[r].peer.mvOutcome \in {"missing", "empty"}
        /\ req[r].peer.source = "live"
        /\ req[r].peer.stats = LiveStats
        /\ req[r].outcome = "peer"

\* The ways a snapshot query can end without usable rows.
Unusable == {"missing", "error", "empty", "stale"}

PeerLiveQueries ==
    {"all_member_stats_live", "single_client_stats_live", "top_classmates_live"}

C5_CacheWriteDiscipline ==
    [][\A r \in Requests :
        LET p == req[r].peer
            q == req'[r].peer
            written == /\ memberStatsCache' = Some(q.stats)
                       /\ peerAveragesCache' = Some(q.averages)
                       /\ peerStatsCacheTime' = now
        IN /\ (p.pc = "all_member_stats_live"
                    /\ q.pc \notin {"all_member_stats_live", "failed"})
                => q.source = "live" /\ written
           /\ (p.pc = "peer_stats_mv" /\ q.pc # "peer_stats_mv")
                => IF q.mvOutcome = "ok"
                   THEN q.source = "mv" /\ written
                   ELSE q.mvOutcome \in Unusable /\ UNCHANGED peerCache]_vars

\* One call has loaded the population and left it in the cache with the
\* current time while another call's snapshot load was turned away and left
\* that entry alone.
C5_Witness ==
    \E r, o \in Requests :
        /\ req[r].peer.source \in {"mv", "live"}
        /\ memberStatsCache = Some(req[r].peer.stats)
        /\ peerAveragesCache = Some(req[r].peer.averages)
        /\ peerStatsCacheTime = now
        /\ req[o].peer.mvOutcome \in Unusable
        /\ req[o].peer.pc = "all_member_stats_live"

\* mean is the exact mean of the column: mean * count = sum.
IsMean(mean, column) ==
    LET sum == SumRat(column)
        count == IF Len(column) = 0 THEN 1 ELSE Len(column)
    IN mean.num * sum.den * count = sum.num * mean.den

AveragesOf(stats, averages) ==
    /\ IsMean(averages.avgClassesPerMonth,
              [i \in 1..Len(stats) |-> stats[i].classesPerMonth])
    /\ IsMean(averages.avgEarlyBirdScore,
              [i \in 1..Len(stats) |-> stats[i].earlyBirdScore])
    /\ IsMean(averages.avgLateBookings,
              [i \in 1..Len(stats) |-> RatInt(stats[i].lateBookings)])
    /\ IsMean(averages.avgCancellations,
              [i \in 1..Len(stats) |-> RatInt(stats[i].cancellations)])

\* What a load can produce in the current state of the stores.
IsOneLoad(stats) ==
    \/ stats = LiveStats
    \/ stats = MapMemberStats(Rows(mvPeer.rows))

\* C7: in every reachable state the cache holds stats and averages together
\* or neither, the cached averages are the means of exactly the cached stats,
\* and every call that has loaded the population holds a pair of which the
\* same is true; a cache write stores the whole pair of one load at once.
C7_CacheIsOneWholeSnapshot ==
    /\ [](/\ memberStatsCache = None <=> peerAveragesCache = None
          /\ memberStatsCache # None
                => AveragesOf(memberStatsCache[1], peerAveragesCache[1])
          /\ \A r \in Requests :
                req[r].peer.source # Null
                    => AveragesOf(req[r].peer.stats, req[r].peer.averages))
    /\ [][\/ UNCHANGED peerCache
          \/ /\ memberStatsCache' # None /\ peerAveragesCache' # None
             /\ IsOneLoad(memberStatsCache'[1])
             /\ AveragesOf(memberStatsCache'[1], peerAveragesCache'[1])
             /\ peerStatsCacheTime' = now]_vars

\* Two calls have each loaded the population on their own, with different
\* results, and the cache holds the pair of one of them.
C7_Witness ==
    \E r, o \in Requests :
        /\ req[r].peer.source = "live"
        /\ req[o].peer.source = "live"
        /\ req[r].peer.stats # req[o].peer.stats
        /\ memberStatsCache = Some(req[o].peer.stats)
        /\ peerAveragesCache = Some(req[o].peer.averages)
        /\ peerAveragesCache # Some(req[r].peer.averages)

(***************************************************************************)
(* Properties of the orchestrator, checked on Spec.                        *)
(***************************************************************************)
\* C6: the two shared computations are started only by the step that ends a
\* successful per-member computation, and both by that one step; a request
\* that ended NotFound never started either and issued none of their
\* queries; the report is returned by a step after which both computations
\* are finished, and holds the per-member result, both their results and the
\* time of that step.
C6_OrchestratorOrdering ==
    /\ [](\A r \in Requests :
            /\ req[r].peer.pc = "idle" <=> req[r].global.pc = "idle"
            /\ req[r].peer.pc # "idle"
                => /\ SubSeq(req[r].queries, 1, 2)
                        = <<"client_info_lookup", "client_combined_stats">>
                   /\ req[r].clientId \in clients
            /\ req[r].outcome = "notfound"
                => /\ req[r].peer = PeerIdle
                   /\ req[r].global = GlobalIdle
                   /\ req[r].queries = <<"client_info_lookup">>
                   /\ req[r].result = Null)
    /\ [][\A r \in Requests :
            /\ (req[r].peer.pc = "idle" /\ req'[r].peer.pc # "idle")
                => /\ req[r].pc = "client_combined_stats"
                   /\ req'[r].global.pc # "idle"
                   /\ req'[r].clientStats = ClientTotals(visits, req[r].clientId)
            /\ (req[r].outcome # "report" /\ req'[r].outcome = "report")
                => /\ req'[r].peer.pc = "done"
                   /\ req'[r].global.pc = "done"
                   /\ req[r].peer.pc # "done" \/ req[r].global.pc # "done"
                   /\ req'[r].result =
                        [clientId |-> req[r].clientId,
                         clientStats |-> req'[r].clientStats,
                         lastUpdated |-> now,
                         peerComparison |-> req'[r].peer.result,
                         globalStats |-> req'[r].global.result]]_vars

\* A report whose two shared computations both went to the stores and
\* finished at different steps, stamped after time had passed.
C6_Witness ==
    \E r \in Requests :
        /\ req[r].outcome = "report"
        /\ req[r].peer.source \in {"mv", "live"}
        /\ req[r].global.source \in {"mv", "live"}
        /\ req[r].result.lastUpdated > StartTime
        /\ req[r].result.peerComparison = req[r].peer.result
        /\ req[r].result.globalStats = req[r].global.result

(***************************************************************************)
(* Properties of the global-stats cache, checked on SpecGlobal.            *)
(***************************************************************************)
\* The global snapshot has a row whose computed_at is at most 24 hours old.
UsableGlobalSnapshot ==
    /\ mvGlobal.exists
    /\ Len(mvGlobal.rows) > 0
    /\ now - mvGlobal.rows[1].computed_at <= OneDay

\* C8: a call of computeGlobalStats made less than one hour after the global
\* cache was stored returns the cached result with no query and leaves the
\* cache alone; any other call asks the snapshot; a snapshot answer with a
\* row at most 24 hours old is returned, any other leads to the live query,
\* whose result is returned; and each result loaded from the snapshot or
\* live is stored in the global cache with the current time.
C8_GlobalStatsCaching ==
    [][\A r \in Requests :
        LET g == req[r].global
            h == req'[r].global
            written == /\ globalStatsCache' = Some(h.result)
                       /\ globalStatsCacheTime' = now
        IN /\ (g.pc = "idle" /\ h.pc # "idle")
                => IF globalStatsCache # None /\ now - globalStatsCacheTime < OneHour
                   THEN /\ h.pc = "done"
                        /\ h.source = "cache"
                        /\ h.result = globalStatsCache[1]
                        /\ h.queries = <<>>
                        /\ UNCHANGED globalCache
                   ELSE h.pc = "global_stats_mv" /\ h.queries = <<"global_stats_mv">>
           /\ (g.pc = "global_stats_mv" /\ h.pc # "global_stats_mv")
                => IF UsableGlobalSnapshot /\ h.mvOutcome # "error"
                   THEN /\ h.pc = "done"
                        /\ h.source = "mv"
                        /\ h.result = ToGlobalStats(mvGlobal.rows[1].row)
                        /\ written
                   ELSE /\ h.pc = "global_stats_live"
                        /\ h.queries = <<"global_stats_mv", "global_stats_live">>
                        /\ UNCHANGED globalCache
           /\ (g.pc = "global_stats_live" /\ h.pc \notin {"global_stats_live", "failed"})
                => /\ h.pc = "done"
                   /\ h.source = "live"
                   /\ \E row \in GlobalStatsRows(visits) : h.result = ToGlobalStats(row)
                   /\ written]_vars

\* A call answered from the global cache after the visit store has moved on.
C8_Witness ==
    \E r \in Requests :
        /\ req[r].global.source = "cache"
        /\ req[r].global.pc = "done"
        /\ req[r].global.queries = <<>>
        /\ req[r].global.result = globalStatsCache[1]
        /\ now > globalStatsCacheTime
        /\ \A row \in GlobalStatsRows(visits) : req[r].global.result # ToGlobalStats(row)

(***************************************************************************)
(* Properties of calculatePercentile, checked on SpecPct.                  *)
(***************************************************************************)
\* |{x in S : x <= v}| counted member by member.
RECURSIVE AtOrBelow(_, _)
AtOrBelow(v, S) ==
    IF S = <<>> THEN 0
    ELSE (IF S[1].num * v.den <= v.num * S[1].den THEN 1 ELSE 0)
            + AtOrBelow(v, Tail(S))

\* p = round(100 * c / n) in exact arithmetic, halves up.
IsRoundedPercent(p, c, n) ==
    /\ 2 * n * p <= 200 * c + n
    /\ 200 * c + n < 2 * n * (p + 1)

\* C9: for every value v and every non-empty population S the result of
\* calculatePercentile(v, S) is round(100 * |{x in S : x <= v}| / |S|), and
\* the member with 30 among {10, 20, 30, 40, 50} gets 60.
C9_PercentileIsRoundedInclusiveRank ==
    (pct.called /\ pct.sortedValues # <<>>)
        => /\ IsRoundedPercent(pct.result,
                               AtOrBelow(pct.value, pct.sortedValues),
                               Len(pct.sortedValues))
           /\ (pct.sortedValues = FiveMembers /\ pct.value = RatInt(30))
                => pct.result = 60

\* C10: on one population, a value at least as large as another gets a
\* percentile rank at least as large.
C10_PercentileIsMonotonic ==
    (pct.called /\ RatLeq(pct.other, pct.value)) => pct.otherResult <= pct.result

\* Two values of one population of which the larger got the larger rank.
C10_Witness ==
    /\ pct.called
    /\ Len(pct.sortedValues) > 1
    /\ RatLeq(pct.other, pct.value)
    /\ pct.other # pct.value
    /\ 0 < pct.otherResult
    /\ pct.otherResult < pct.result

\* v is a member's value of the population S and no value of S is larger.
IsMaximumOf(v, S) ==
    /\ \E i \in 1..Len(S) : S[i] = v
    /\ \A i \in 1..Len(S) : S[i].num * v.den <= v.num * S[i].den

\* C11: the percentile rank calculatePercentile gives the largest value of a
\* non-empty population is 100.
C11_MaximumRanksHundred ==
    (pct.called /\ IsMaximumOf(pct.value, pct.sortedValues)) => pct.result = 100

\* The largest of several different values was ranked, and a smaller value
\* of the same population got less than 100.
C11_Witness ==
    /\ pct.called
    /\ Len(pct.sortedValues) > 2
    /\ IsMaximumOf(pct.value, pct.sortedValues)
    /\ pct.result = 100
    /\ \E i \in 1..Len(pct.sortedValues) : pct.sortedValues[i] = pct.other
    /\ pct.otherResult < 100

(***************************************************************************)
(* The member absent from the loaded population, checked on SpecPeer.      *)
(***************************************************************************)
\* The snapshot the population-wide live computation holds for member c over
\* the visit store as it is now, all zero when it has no row for c.
PopulationSnapshotOf(c) ==
    LET rows == {i \in 1..Len(LiveStats) : LiveStats[i].clientId = c}
    IN IF rows = {}
       THEN [clientId |-> c, totalClasses |-> 0, classesPerMonth |-> RatInt(0),
             earlyBirdScore |-> RatInt(0), lateBookings |-> 0,
             cancellations |-> 0, perfectWeeks |-> 0]
       ELSE LiveStats[CHOOSE i \in rows : TRUE]

\* C12: when the population a call has loaded holds no entry for its member
\* the call goes on to the single-member query instead of failing, and the
\* snapshot that query gives is the one the population-wide live query would
\* give for that member over the same visit store, all zero when the member
\* has no visit in the year.
C12_AbsentMemberComputedLive ==
    [][\A r \in Requests :
        LET p == req[r].peer
            q == req'[r].peer
            c == req'[r].clientId
        IN /\ (p.source = Null /\ q.source # Null)
                => IF \E i \in 1..Len(q.stats) : q.stats[i].clientId = c
                   THEN q.pc = "top_classmates_live"
                   ELSE q.pc = "single_client_stats_live" /\ q.error = Null
           /\ (p.pc = "single_client_stats_live"
                    /\ q.pc \notin {"single_client_stats_live", "failed"})
                => /\ q.clientStats = PopulationSnapshotOf(c)
                   /\ q.pc = "top_classmates_live"]_vars

\* A member with classes in the store but absent from the cached population
\* got the snapshot the store gives it.
C12_Witness ==
    \E r \in Requests :
        /\ req[r].peer.source = "cache"
        /\ req[r].peer.pc = "done"
        /\ \A i \in 1..Len(req[r].peer.stats) :
                req[r].peer.stats[i].clientId # req[r].clientId
        /\ req[r].peer.clientStats = PopulationSnapshotOf(req[r].clientId)
        /\ req[r].peer.clientStats.totalClasses > 0

(***************************************************************************)
(* Properties of computeClientStats, checked on SpecClient.                *)
(***************************************************************************)
\* The distinct dates of the reporting year on which member c attended a
\* class (not cancelled, not missed).
AttendedDates(c) ==
    {v.class_date : v \in {w \in visits :
        /\ w.client_dupont_location_id = c
        /\ ~w.cancelled /\ ~w.missed
        /\ w.class_date >= YEAR_START /\ w.class_date <= YEAR_END}}

\* n is the length of the longest run of calendar-consecutive dates in a
\* non-empty set: some run of n dates lies in the set, and none of n + 1.
IsLongestRun(n, dates) ==
    /\ \E d \in dates : \A k \in 0..(n - 1) : (d + k) \in dates
    /\ \A d \in dates : \E k \in 0..n : (d + k) \notin dates

\* What the calls of computeClientStats that returned stats gave back.
StatsReturned == {i \in 1..Len(cs.returned) : cs.returned[i].outcome = "stats"}

\* C13: for a member with an attended class in the reporting year,
\* longestStreak is the length of the longest run of calendar-consecutive
\* dates among the distinct attended dates: the next day continues a run, any
\* larger gap starts a new one, two classes on one day count once; the dates
\* {D1, D1+1, D1+2, D3, D3+1} with D3 > D1+3 give 3.
C13_LongestStreakIsLongestRun ==
    \A i \in StatsReturned :
        LET dates == AttendedDates(cs.clientId)
            streak == cs.returned[i].stats[1].longestStreak
        IN /\ dates # {} => IsLongestRun(streak, dates)
           /\ dates = {6, 7, 8, 20, 21} => streak = 3

\* Three consecutive days with two classes on the second, then a later pair
\* of days: the streak returned is 3.
C13_Witness ==
    /\ StatsReturned # {}
    /\ AttendedDates(cs.clientId) = {6, 7, 8, 20, 21}
    /\ Cardinality({v \in visits : v.class_date = 7}) = 2
    /\ \A i \in StatsReturned : cs.returned[i].stats[1].longestStreak = 3

\* C14 as the specification states it: a member whose attended visits are on
\* January 6, 7, 8, 10 and 20 has longest streak 4, the 10th counted as
\* still consecutive to the 8th.
C14_ScenarioStreakIsFour ==
    \A i \in StatsReturned :
        AttendedDates(cs.clientId) = {6, 7, 8, 10, 20}
            => cs.returned[i].stats[1].longestStreak = 4

\* C14: a member whose attended visits are on January 6, 7, 8, 10 and 20 has
\* longest streak 3: the 10th is two days after the 8th and starts a new run.
C14_ScenarioStreakIsThree ==
    \A i \in StatsReturned :
        AttendedDates(cs.clientId) = {6, 7, 8, 10, 20}
            => cs.returned[i].stats[1].longestStreak = 3

\* The scenario's member was computed, with or without the class cancelled on
\* the 9th.
C14_Witness ==
    /\ cs.call = "second"
    /\ Len(cs.returned) = 2
    /\ AttendedDates(cs.clientId) = {6, 7, 8, 10, 20}
    /\ \E v \in visits : v.class_date = 9 /\ v.cancelled
    /\ cs.returned[2].outcome = "stats"
    /\ cs.returned[2].stats[1].longestStreak = 3

\* C15: a member of the directory with no attended class in the reporting
\* year (no visit, or only cancelled or missed ones) gets earlyBirdScore 0,
\* perfectMadWeeks 0, totalClasses, totalLateBookings and the four class-type
\* counts 0, "0" for each of the twelve monthly counts, an empty
\* locationBreakdown, and the favoriteLocation "Unknown" with percentage 0.
C15_NoAttendedClassGivesZeros ==
    \A i \in StatsReturned :
        LET s == cs.returned[i].stats[1]
        IN AttendedDates(cs.clientId) = {}
            => /\ s.earlyBirdScore = 0
               /\ s.perfectMadWeeks = 0
               /\ s.totalClasses = 0
               /\ s.totalLateBookings = 0
               /\ s.durabilityClasses = 0 /\ s.anaerobicClasses = 0
               /\ s.momentumClasses = 0 /\ s.deloadClasses = 0
               /\ Len(s.classesPerMonth) = 12
               /\ \A m \in 1..12 : s.classesPerMonth[m].count = "0"
               /\ s.locationBreakdown = <<>>
               /\ s.favoriteLocation = [name |-> "Unknown", percentage |-> 0]

\* A member whose only class of the year was cancelled, with a class outside
\* the year, got a result.
C15_Witness ==
    \E i \in StatsReturned :
        /\ AttendedDates(cs.clientId) = {}
        /\ cs.returned[i].stats[1].totalCancellations = 1
        /\ cs.returned[i].stats[1].allTimeClasses = 1
        /\ cs.returned[i].stats[1].totalClasses = 0

RECURSIVE SumOfCounts(_)
\* The sum of the count fields of a sequence of entries.
SumOfCounts(entries) ==
    IF entries = <<>> THEN 0
    ELSE entries[1].count + SumOfCounts(Tail(entries))

\* The attended visits of member c in the reporting year.
AttendedVisits(c) ==
    {w \in visits : /\ w.client_dupont_location_id = c
                    /\ ~w.cancelled /\ ~w.missed
                    /\ w.class_date >= YEAR_START /\ w.class_date <= YEAR_END}

\* C16: for a member with an attended class in the year and a location on
\* every attended visit, the counts of locationBreakdown add up to
\* totalClasses, each location has one entry, counting that location's
\* attended visits, and favoriteLocation is an entry of the highest count.
C16_LocationBreakdownPartitions ==
    \A i \in StatsReturned :
        LET s == cs.returned[i].stats[1]
            b == s.locationBreakdown
            att == AttendedVisits(cs.clientId)
        IN (att # {} /\ \A v \in att : v.location_name # Null)
            => /\ SumOfCounts(b) = s.totalClasses
               /\ \A j, k \in 1..Len(b) : b[j].name = b[k].name => j = k
               /\ {b[j].name : j \in 1..Len(b)} = {v.location_name : v \in att}
               /\ \A j \in 1..Len(b) :
                    b[j].count =
                        Cardinality({v \in att : v.location_name = b[j].name})
               /\ \E j \in 1..Len(b) :
                    /\ s.favoriteLocation.name = b[j].name
                    /\ s.favoriteLocation.percentage = b[j].percentage
                    /\ \A k \in 1..Len(b) : b[k].count <= b[j].count

\* Three classes at one location and one at another: the breakdown has both
\* and the favourite is the first.
C16_Witness ==
    \E i \in StatsReturned :
        LET s == cs.returned[i].stats[1]
        IN /\ \A v \in AttendedVisits(cs.clientId) : v.location_name # Null
           /\ s.totalClasses = 4
           /\ Len(s.locationBreakdown) = 2
           /\ s.locationBreakdown[1].count = 3
           /\ s.favoriteLocation = [name |-> "Dupont", percentage |-> 75]

\* C17: two calls of computeClientStats for the same member with no write to
\* the visit store between them return the same result, the tie-broken
\* fields (top coach, top three time slots, most frequent day, favourite
\* location) included.
C17_RepeatedCallReturnsTheSame ==
    (/\ Len(cs.returned) = 2
     /\ cs.returned[1].outcome = "stats"
     /\ cs.returned[2].outcome = "stats")
        => cs.returned[1].stats = cs.returned[2].stats

\* C18: a call of computeClientStats that the store answers returns null
\* exactly when the identifier has no entry in the clients table; it has then
\* sent the lookup and no other query; a member of the directory gets a
\* result, with or without visits.
C18_NullExactlyForUnknownMember ==
    \A i \in 1..Len(cs.returned) :
        LET call == cs.returned[i]
        IN /\ call.outcome = "null"
                => /\ cs.clientId \notin clients
                   /\ call.queries = <<"client_info_lookup">>
           /\ cs.clientId \notin clients
                => /\ call.outcome \in {"null", "thrown"}
                   /\ call.queries = <<"client_info_lookup">>
           /\ (cs.clientId \in clients /\ call.outcome # "thrown")
                => /\ call.outcome = "stats"
                   /\ call.queries = <<"client_info_lookup", "client_combined_stats">>
                   /\ call.stats # None

\* An identifier outside the directory got null twice while the store held
\* visits of a member.
C18_Witness ==
    /\ Len(cs.returned) = 2
    /\ cs.clientId \notin clients
    /\ visits # {}
    /\ \A i \in 1..2 : cs.returned[i].outcome = "null"

(***************************************************************************)
(* Properties of computeCoachStats, checked on SpecCoach.                  *)
(***************************************************************************)
\* The visits of the reporting year held by the coach of the call that were
\* attended (not cancelled, not missed).
TaughtVisits ==
    {v \in visits : /\ v.trainer_first_name = co.first
                    /\ v.trainer_last_name = co.last
                    /\ ~v.cancelled /\ ~v.missed
                    /\ v.class_date >= YEAR_START /\ v.class_date <= YEAR_END}

\* C19: computeCoachStats returns null exactly when the store answered and
\* the coach has no attended class session in the reporting year, and has
\* then sent the first query only; a store error on any query is thrown and
\* never becomes null; a coach with a session gets stats after all nine
\* queries.
C19_NullExactlyForCoachWithoutSessions ==
    /\ co.failed # Null => co.outcome = "thrown"
    /\ co.outcome = "null"
        => /\ TaughtVisits = {}
           /\ co.failed = Null
           /\ co.queries = <<"Coach Basic Stats">>
    /\ (co.outcome \in {"null", "stats"} /\ TaughtVisits = {})
        => co.outcome = "null"
    /\ co.outcome = "stats"
        => /\ TaughtVisits # {}
           /\ co.queries = CoachQueries
           /\ co.stats # None

\* A coach whose only classes were cancelled or outside the year got null.
C19_Witness ==
    /\ co.outcome = "null"
    /\ co.first = "Ann"
    /\ \E v \in visits : v.trainer_first_name = "Ann" /\ v.cancelled
    /\ \E v \in visits : v.trainer_first_name = "Ann" /\ v.class_date > YEAR_END
    /\ co.queries = <<"Coach Basic Stats">>

\* The class sessions the coach of the call held in the reporting year: the
\* distinct (date, time, location) of the visits attended.
TaughtSessions ==
    {<<v.class_date, v.class_time, v.location_name>> : v \in TaughtVisits}

\* The sessions that began before 6am, and those that began at 7pm or later.
Before6am(sessions) == {s \in sessions : s[2] # None /\ s[2][1] < 6}

After7pm(sessions) == {s \in sessions : s[2] # None /\ s[2][1] >= 19}

\* The share of `part` in `all` is more than 30%.
MoreThan30Percent(part, all) ==
    Cardinality(all) > 0 /\ 10 * Cardinality(part) > 3 * Cardinality(all)

\* C20: earlyMorningWarrior is true exactly when the coach's sessions before
\* 6am are more than 30% of all of the coach's sessions, and lateNightHero
\* exactly when the sessions after 7pm are; of 12 sessions, 3 before 6am
\* give false and 4 give true.
C20_BadgesAtStrictThirtyPercent ==
    co.outcome = "stats"
        => /\ co.stats[1].earlyMorningWarrior
                <=> MoreThan30Percent(Before6am(TaughtSessions), TaughtSessions)
           /\ co.stats[1].lateNightHero
                <=> MoreThan30Percent(After7pm(TaughtSessions), TaughtSessions)
           /\ (Cardinality(TaughtSessions) = 12
                    /\ Cardinality(Before6am(TaughtSessions)) = 3)
                => ~co.stats[1].earlyMorningWarrior
           /\ (Cardinality(TaughtSessions) = 12
                    /\ Cardinality(Before6am(TaughtSessions)) = 4)
                => co.stats[1].earlyMorningWarrior

\* The sessions with a class time and a location, the ones the time slot
\* query counts.
TimedSessions == {s \in TaughtSessions : s[2] # None /\ s[3] # Null}

\* What the badges are in every call: the same shares taken over the sessions
\* that have a class time and a location.
BadgesOverTimedSessions ==
    co.outcome = "stats"
        => /\ co.stats[1].earlyMorningWarrior
                <=> MoreThan30Percent(Before6am(TimedSessions), TimedSessions)
           /\ co.stats[1].lateNightHero
                <=> MoreThan30Percent(After7pm(TimedSessions), TimedSessions)

\* C21: averageClassSize is the mean number of attendees per session, the
\* student-visits of the coach divided by the number of distinct (date,
\* time, location) sessions, each session weighing once; the result holds it
\* to one decimal, here in tenths.
C21_AverageClassSizeIsVisitsPerSession ==
    co.outcome = "stats"
        => co.stats[1].averageClassSize =
                RoundRat(Rat(Cardinality(TaughtVisits) * 10,
                             Cardinality(TaughtSessions)))

\* The students of the coach of the call in the reporting year.
Students == {v.client_dupont_location_id : v \in TaughtVisits}

\* When a visit's class began: its date, then its hour.
BeganAt(v) == v.class_date * 24 + (IF v.class_time = None THEN 0 ELSE v.class_time[1])

\* The students who attended a session of the coach that began after their
\* first one, later on the same day included.
ReturningStudents ==
    {c \in Students :
        \E v, w \in TaughtVisits :
            /\ v.client_dupont_location_id = c
            /\ w.client_dupont_location_id = c
            /\ BeganAt(w) > BeganAt(v)}

TimedAttended == {v \in AttendedVisits(cs.clientId) : v.class_time # None}

\* C23: earlyBirdScore is round(100 * early / timed), where timed counts the
\* attended visits of the year with a class time and early those of them
\* with class hour below 8, halves rounded up, and 0 when timed is 0;
\* cancelled or missed visits and visits without a class time count in
\* neither; the score is an integer from 0 to 100.
C23_EarlyBirdScoreIsRoundedShare ==
    \A i \in StatsReturned :
        LET score == cs.returned[i].stats[1].earlyBirdScore
            timed == Cardinality(TimedAttended)
            early == Cardinality({v \in TimedAttended : v.class_time[1] < 8})
        IN /\ score \in 0..100
           /\ timed = 0 => score = 0
           /\ timed > 0 =>
                /\ 2 * timed * score <= 200 * early + timed
                /\ 200 * early + timed < 2 * timed * (score + 1)

\* Three early classes of eight with a time, besides a class without a time
\* and a cancelled early class: 37.5 is returned as 38.
C23_Witness ==
    \E i \in StatsReturned :
        /\ Cardinality(TimedAttended) = 8
        /\ Cardinality({v \in TimedAttended : v.class_time[1] < 8}) = 3
        /\ Cardinality(AttendedVisits(cs.clientId)) = 9
        /\ \E v \in visits : v.cancelled
        /\ cs.returned[i].stats[1].earlyBirdScore = 38

(***************************************************************************)
(* What the engine writes, checked on Spec.                                *)
(***************************************************************************)
\* Where every call stands: its positions, the queries it has sent, its
\* connection and its outcome.
Position(q) ==
    [r \in Requests |->
        <<q[r].pc, q[r].peer.pc, q[r].global.pc, q[r].queries,
          q[r].peer.queries, q[r].global.queries, q[r].connection,
          q[r].released, q[r].outcome>>]

\* C24: a step of a call of the engine (a step that moves a call) leaves the
\* visit store, the member directory and the snapshot store as they were; of
\* the shared state only the population cache and the global-stats cache are
\* written, and only by steps of calls.
C24_EngineOnlyWritesItsCaches ==
    [][/\ Position(req') # Position(req)
            => /\ visits' = visits
               /\ clients' = clients
               /\ mvPeer' = mvPeer
               /\ mvGlobal' = mvGlobal
       /\ (peerCache' # peerCache \/ globalCache' # globalCache)
            => Position(req') # Position(req)]_vars

\* A call returned its report after loading both caches, and the stores are
\* the ones it started on.
C24_Witness ==
    /\ req["r1"].outcome = "report"
    /\ memberStatsCache # None
    /\ globalStatsCache # None
    /\ req["r1"].peer.source \in {"mv", "live"}
    /\ visits = InitialVisits
    /\ clients = Directory

\* C25: the two caches are independent.  A step that writes the population
\* cache stamps it with the time of that step and leaves the global-stats
\* cache and its timestamp alone, and the other way round; a call that starts
\* its two sub-computations is served the population from the cache exactly
\* when that cache is filled and less than one hour has passed since its own
\* last load, and the global stats from the cache exactly when that cache is
\* filled and less than one hour has passed since its own last load.
C25_CachesAreIndependent ==
    [][/\ peerCache' # peerCache
            => /\ globalCache' = globalCache
               /\ memberStatsCache' # None
               /\ peerAveragesCache' # None
               /\ peerStatsCacheTime' = now
       /\ globalCache' # globalCache
            => /\ peerCache' = peerCache
               /\ globalStatsCache' # None
               /\ globalStatsCacheTime' = now
       /\ \A r \in Requests :
            (req[r].peer.pc = "idle" /\ req'[r].peer.pc # "idle")
                => /\ req'[r].peer.source = "cache"
                        <=> /\ memberStatsCache # None
                            /\ peerAveragesCache # None
                            /\ now - peerStatsCacheTime < OneHour
                   /\ req'[r].global.source = "cache"
                        <=> /\ globalStatsCache # None
                            /\ now - globalStatsCacheTime < OneHour]_vars

\* Both caches are filled, loaded at different times; the population cache
\* has expired and is being reloaded by a call whose global stats came from
\* the cache.
C25_Witness ==
    /\ memberStatsCache # None
    /\ globalStatsCache # None
    /\ now - peerStatsCacheTime >= OneHour
    /\ now - globalStatsCacheTime < OneHour
    /\ req["r1"].global.source = "cache"
    /\ req["r1"].peer.pc = "peer_stats_mv"

(***************************************************************************)
(* The streak of a member and of a coach, checked on SpecStreak.           *)
(***************************************************************************)
\* The dates in the reporting year on which a coach held an attended class.
TeachingDates(coach) ==
    {v.class_date : v \in {w \in visits :
        /\ w.trainer_first_name = coach[1]
        /\ w.trainer_last_name = coach[2]
        /\ ~w.cancelled /\ ~w.missed
        /\ w.class_date >= YEAR_START /\ w.class_date <= YEAR_END}}

\* C26: a member without an attended class in the reporting year is reported
\* longestStreak = 1, and a member with one a longestStreak between 1 and
\* the number of distinct attended dates; the streak query of a coach without
\* a teaching day gives no value and the streak falls back to 0, and every
\* coach result that is returned has longestTeachingStreak >= 1.
C26_StreakConventions ==
    /\ \A i \in StatsReturned :
        LET n == Cardinality(AttendedDates(cs.clientId))
            streak == cs.returned[i].stats[1].longestStreak
        IN IF n = 0 THEN streak = 1 ELSE 1 <= streak /\ streak <= n
    /\ \A coach \in Coaches :
        TeachingDates(coach) = {}
            => LongestTeachingStreak(visits, coach[1], coach[2]) = 0
    /\ co.outcome = "stats"
        => /\ co.stats[1].longestTeachingStreak >= 1
           /\ co.stats[1].longestTeachingStreak
                <= Cardinality(TeachingDates(<<co.first, co.last>>))

\* A member whose only class of the year was cancelled is reported a streak
\* of 1 on a store where the streak of a coach without a teaching day is 0.
C26_Witness ==
    \E i \in StatsReturned :
        /\ AttendedDates(cs.clientId) = {}
        /\ \E v \in visits : v.client_dupont_location_id = cs.clientId /\ v.cancelled
        /\ cs.returned[i].stats[1].longestStreak = 1
        /\ TeachingDates(Bob) = {}
        /\ LongestTeachingStreak(visits, Bob[1], Bob[2]) = 0

(***************************************************************************)
(* The connection of computeStatsForClient, checked on Spec.               *)
(***************************************************************************)
\* C27: the connection of a call is never released while computePeerStats or
\* computeGlobalStats still has a query pending on it; when one of the two
\* fails, the release waits for the other to finish.
C27_NoReleaseWhileQueryPending ==
    \A r \in Requests :
        req[r].connection = "released"
            => /\ ~Waiting(req[r].peer)
               /\ ~Waiting(req[r].global)
               /\ req[r].pending = <<>>

\* No query occurs twice in a sequence of queries sent.
SentOnce(queries) ==
    \A i, j \in DOMAIN queries : queries[i] = queries[j] => i = j

\* C28: a call of computeStatsForClient holds its connection until it ends
\* and has released it exactly once when it has ended, whether with the
\* report, with NotFound or with an error; a failed query of any of the three
\* sub-computations ends the call with an error and never with a report; and
\* no query is sent a second time.
C28_ReleasedOnceOnEveryOutcome ==
    \A r \in Requests :
        LET rq == req[r]
        IN /\ rq.pc \in {"client_info_lookup", "client_combined_stats", "parallel"}
                => rq.connection = "held" /\ rq.released = 0 /\ rq.outcome = Null
           /\ rq.pc = "done"
                => /\ rq.connection = "released"
                   /\ rq.released = 1
                   /\ rq.outcome \in {"report", "notfound", "error"}
                   /\ rq.outcome = "report"
                        => /\ rq.result.clientId = rq.clientId
                           /\ rq.peer.pc = "done" /\ rq.global.pc = "done"
                   /\ rq.outcome = "error"
                        <=> \/ rq.error # Null
                            \/ rq.peer.pc = "failed"
                            \/ rq.global.pc = "failed"
           /\ SentOnce(rq.queries)
           /\ SentOnce(rq.peer.queries)
           /\ SentOnce(rq.global.queries)

\* A call ended with the error of its population computation, released its
\* connection once, and its global computation ran on to the end afterwards.
C28_Witness ==
    /\ req["r1"].pc = "done"
    /\ req["r1"].outcome = "error"
    /\ req["r1"].released = 1
    /\ req["r1"].peer.pc = "failed"
    /\ req["r1"].global.pc = "done"
    /\ req["r1"].global.source = "live"

(***************************************************************************)
(* The age of what the caches serve, checked on Spec.                      *)
(***************************************************************************)
\* The population and the global record of the views as they stood when the
\* engine started, and the computed_at they carry.
SnapshotStats == MapMemberStats(AllMemberStatsRows(SnapshotVisits))
SnapshotGlobalStats == {ToGlobalStats(g) : g \in GlobalStatsRows(SnapshotVisits)}
SnapshotComputedAt == StartTime - MV_STALENESS_THRESHOLD_MS

\* C29: a view's rows are accepted, and cached under the time of loading,
\* only while their computed_at is at most 24 hours old; a cache entry is
\* served only while less than one hour has passed since its loading; so a
\* population or a global record that came from a view is served from the
\* cache while its computed_at is less than 24 hours + 1 hour old and never
\* when it is older.
C29_ServedSnapshotAgeBound ==
    [][\A r \in Requests :
        LET p == req[r].peer
            q == req'[r].peer
            g == req[r].global
            h == req'[r].global
        IN /\ (p.pc = "peer_stats_mv" /\ q.source = "mv")
                => /\ now - mvPeer.rows[1].computed_at <= OneDay
                   /\ peerStatsCacheTime' = now
           /\ (g.pc = "global_stats_mv" /\ h.source = "mv")
                => /\ now - mvGlobal.rows[1].computed_at <= OneDay
                   /\ globalStatsCacheTime' = now
           /\ (p.pc = "idle" /\ q.source = "cache")
                => /\ now - peerStatsCacheTime < OneHour
                   /\ q.stats = SnapshotStats
                        => now - SnapshotComputedAt < OneDay + OneHour
           /\ (g.pc = "idle" /\ h.source = "cache")
                => /\ now - globalStatsCacheTime < OneHour
                   /\ h.result \in SnapshotGlobalStats
                        => now - SnapshotComputedAt < OneDay + OneHour]_vars

\* A call is served from both caches what came from the views the engine
\* started with, when their computed_at is more than 24 hours old.
C29_Witness ==
    /\ req["r1"].peer.source = "cache"
    /\ req["r1"].peer.stats = SnapshotStats
    /\ req["r1"].peer.stats # LiveStats
    /\ req["r1"].global.source = "cache"
    /\ req["r1"].global.result \in SnapshotGlobalStats
    /\ \A row \in GlobalStatsRows(visits) : req["r1"].global.result # ToGlobalStats(row)
    /\ now - SnapshotComputedAt > OneDay
    /\ mvPeer.rows # <<>> /\ mvPeer.rows[1].computed_at = SnapshotComputedAt

(***************************************************************************)
(* A failed reload of the population, checked on SpecPeer.                 *)
(***************************************************************************)
\* C30: a live recomputation that fails ends its call with the error, serves
\* nothing and leaves memberStatsCache, peerAveragesCache and
\* peerStatsCacheTime as they were, an expired entry included; and a call
\* made while the cache is empty or expired sends the snapshot query, after
\* which an unusable snapshot leads to the live query again.
C30_FailedReloadKeepsTheCache ==
    [][\A r \in Requests :
        LET p == req[r].peer
            q == req'[r].peer
        IN /\ (p.pc = "all_member_stats_live" /\ q.pc = "failed")
                => /\ UNCHANGED peerCache
                   /\ q.error = "all_member_stats_live"
                   /\ q.source = Null
                   /\ q.queries = <<"peer_stats_mv", "all_member_stats_live">>
                   /\ req'[r].pc = "done"
                   /\ req'[r].outcome = "error"
           /\ (p.pc = "idle" /\ q.pc # "idle" /\ ~FreshEntry)
                => /\ q.pc = "peer_stats_mv"
                   /\ q.queries = <<"peer_stats_mv">>
                   /\ UNCHANGED peerCache
           /\ (p.pc = "peer_stats_mv" /\ q.pc # "peer_stats_mv" /\ q.mvOutcome # "ok")
                => /\ q.pc = "all_member_stats_live"
                   /\ UNCHANGED peerCache]_vars

\* The live query of a call made after the cache entry expired has failed:
\* the call ended with the error and the expired entry is still in the cache.
C30_Witness ==
    \E r \in Requests :
        /\ req[r].peer.pc = "failed"
        /\ req[r].peer.error = "all_member_stats_live"
        /\ req[r].outcome = "error"
        /\ memberStatsCache # None
        /\ peerAveragesCache # None
        /\ peerStatsCacheTime >= StartTime
        /\ now - peerStatsCacheTime >= OneHour

====
